---- MODULE Spec2Model ----
(***************************************************************************)
(* Evolution and error-memory core of llmloop: the version store           *)
(* (code_evolution.py), the orchestrator loop that feeds it                *)
(* (smart_llm_loop.py), the error normalizer and the success pattern       *)
(* learner (success_pattern_learner.py).                                   *)
(*                                                                         *)
(* Conventions.  A raised exception is a result record with raised = TRUE. *)
(* A JSON object / Python dict is a TLA+ record whose DOMAIN is its key    *)
(* set.  A text (error message, code line) is a sequence of symbols, each  *)
(* symbol standing for one character or one fixed word of the text.        *)
(* Scores are in hundredths.                                               *)
(***************************************************************************)
EXTENDS Integers, Sequences, FiniteSets, TLC

VARIABLES
    versions,         \* CodeEvolution.versions
    current_version,  \* CodeEvolution.current_version
    session_file,     \* content of evolution_<session_id>.json on disk
    ret,              \* last store operation: its name, whether it raised, what
                      \* the file system did with its write, the id it returned
    clock,            \* number of datetime.now() readings taken so far
    pc,               \* position of SmartLLMLoop.run
    iteration,        \* loop variable of run (self.current_iteration)
    max_iterations,   \* self.max_iterations
    current_code,     \* run's current_code
    validation,       \* validation_results of the current iteration
    errors_history,   \* run's errors_history
    m1,               \* a raw error message given to the normalizer
    m2,               \* a second raw message, compared with m1
    rel,              \* how m2 relates to m1: "varied" or "other"
    patterns,         \* SuccessPatternLearner.patterns, in insertion order
    pattern_file,     \* content of success_patterns.json on disk
    hash_seed,        \* salt of str.__hash__ in the learner's process
    learn_clock,      \* number of datetime.now() readings the learner took
    lret,             \* last learner operation: its name, its input, whether it
                      \* raised, what the file system did with its write
    max_changes_per_iteration,  \* IncrementalFixer.max_changes_per_iteration
    fixer_calls,      \* number of calls the fixer object has served
    call,             \* last call of the categorizer or the fixer: its name
                      \* and its arguments
    result            \* what that call returned, or that it raised

storeVars == <<versions, current_version, session_file, ret, clock>>
loopVars == <<pc, iteration, max_iterations, current_code, validation, errors_history>>
normVars == <<m1, m2, rel>>
learnVars == <<patterns, pattern_file, hash_seed, learn_clock, lret>>
toolVars == <<max_changes_per_iteration, fixer_calls, call, result>>
vars == <<versions, current_version, session_file, ret, clock,
          pc, iteration, max_iterations, current_code, validation, errors_history,
          m1, m2, rel,
          patterns, pattern_file, hash_seed, learn_clock, lret,
          max_changes_per_iteration, fixer_calls, call, result>>

----------------------------------------------------------------------------
(* Bounds of the model *)

\* readings of the clock (one per add_version call) after which direct callers
\* of add_version stop
MaxCalls == 2
\* readings of the clock after which the learner is given nothing more
MaxLearnReadings == 7
\* pieces a raw message given to the normalizer is made of
MaxPieces == 3
\* largest max_iterations a run is configured with
MaxRunIterations == 2
\* messages in a list given to categorize_errors
MaxErrors == 3
\* largest max_changes_per_iteration a fixer is constructed with
MaxCap == 4
\* categorized errors in a list given to apply_minimal_fixes
MaxFixErrors == 4
\* calls one fixer object serves before the next one is constructed
MaxFixerCalls == 1

\* Python None where a line number is expected (no line number is negative),
\* and where an attempt is
NoLine == -1
NoVersion == [none |-> TRUE]

\* candidate source texts, and the iteration numbers a direct caller passes
Codes == {0, 1, 2}
Iterations == {0, 1}

----------------------------------------------------------------------------
(* Generic helpers *)

Last(s) == s[Len(s)]

\* s[-n:]
LastN(s, n) == IF Len(s) <= n THEN s ELSE SubSeq(s, Len(s) - n + 1, Len(s))

Smaller(a, b) == IF a < b THEN a ELSE b

RECURSIVE SumSeq(_)
SumSeq(s) == IF s = <<>> THEN 0 ELSE Head(s) + SumSeq(Tail(s))

RECURSIVE Flatten(_)
Flatten(ss) == IF ss = <<>> THEN <<>> ELSE Head(ss) \o Flatten(Tail(ss))

----------------------------------------------------------------------------
(* Time: datetime.now(), isoformat(), fromisoformat() *)

\* The k-th reading of the wall clock: a datetime with second and microsecond
\* parts.  Readings alternate between a whole second and a fractional one.
Instant(k) == [sec |-> k, micro |-> (k % 2) * 5]

\* isoformat as a format that stops at the seconds
isoformat_to_seconds(t) == <<t.sec>>

\* datetime.isoformat(): the fractional part is written only when it is not 0.
isoformat(t) == IF t.micro = 0 THEN <<t.sec>> ELSE <<t.sec, t.micro>>

IsIsoText(s) == /\ Len(s) \in {1, 2}
                /\ \A i \in 1 .. Len(s) : s[i] \in Nat

\* datetime.fromisoformat(): a missing fractional part reads as 0.
fromisoformat(s) == [sec |-> s[1], micro |-> IF Len(s) = 2 THEN s[2] ELSE 0]

----------------------------------------------------------------------------
(* CompilationError and CodeVersion, with their dict forms *)

ErrorFields == {"error_type", "error_message", "line_number", "code_snippet",
                "solution_attempt"}

VersionFields == {"version_id", "code", "timestamp", "iteration", "quality_score",
                  "compilation_success", "review_feedback", "changes_from_previous",
                  "improvement_areas", "compilation_errors", "fixed_errors"}

CompilationError(type, message, line, snippet, attempt) ==
    [error_type |-> type, error_message |-> message, line_number |-> line,
     code_snippet |-> snippet, solution_attempt |-> attempt]

\* CompilationError.to_dict: asdict, one key per field.
ErrorToDict(e) == [k \in ErrorFields |-> e[k]]

\* CompilationError.from_dict: cls(**data) raises TypeError unless the keys are
\* exactly the fields.
ErrorFromDictRaises(d) == DOMAIN d # ErrorFields

ErrorFromDict(d) == [k \in ErrorFields |-> d[k]]

\* CodeVersion.to_dict
to_dict(v) ==
    [k \in VersionFields |->
        CASE k = "timestamp" -> isoformat(v.timestamp)
          [] k = "compilation_errors" ->
                [i \in 1 .. Len(v.compilation_errors) |-> ErrorToDict(v.compilation_errors[i])]
          [] OTHER -> v[k]]

\* The dict after the backward-compatibility defaults of from_dict.
WithDefaults(d) ==
    [k \in DOMAIN d \cup {"compilation_errors", "fixed_errors"} |->
        IF k \in DOMAIN d THEN d[k] ELSE <<>>]

\* CodeVersion.from_dict raises: KeyError without a timestamp, ValueError on a
\* timestamp that does not parse, TypeError from a nested error record or from
\* cls(**data) when the keys are not exactly the fields.
from_dict_raises(d) ==
    \/ "timestamp" \notin DOMAIN d
    \/ ~IsIsoText(d.timestamp)
    \/ \E i \in 1 .. Len(WithDefaults(d).compilation_errors) :
            ErrorFromDictRaises(WithDefaults(d).compilation_errors[i])
    \/ DOMAIN WithDefaults(d) # VersionFields

\* CodeVersion.from_dict on a dict it accepts.
from_dict(d) ==
    LET data == WithDefaults(d) IN
    [k \in VersionFields |->
        CASE k = "timestamp" -> fromisoformat(data.timestamp)
          [] k = "compilation_errors" ->
                [i \in 1 .. Len(data.compilation_errors) |->
                    ErrorFromDict(data.compilation_errors[i])]
          [] OTHER -> data[k]]

----------------------------------------------------------------------------
(* Version ids and diffs *)

\* hashlib.md5(code.encode()).hexdigest()[:8]: the digest is cut to 8 hex digits,
\* so distinct texts can share a prefix.
code_hash(code) == code % 2

\* f"v{iteration}_{code_hash}"
VersionId(it, code) == [iteration |-> it, code_hash |-> code_hash(code)]

NoId == [iteration |-> -1, code_hash |-> -1]

\* _calculate_diff: the unified diff of two texts, empty when they are equal,
\* otherwise a text fixed by the pair.
calculate_diff(old_code, new_code) ==
    IF old_code = new_code THEN <<>> ELSE <<old_code, new_code>>

----------------------------------------------------------------------------
(* The session document and its file *)

SessionId == "S"

WriteOutcomes == {"ok", "open_fails", "write_fails"}

NoData == [x \in {} |-> 0]

MissingFile == [kind |-> "missing", data |-> NoData]
\* a file whose text is not JSON (also: a file cut short by a failed write)
UnparseableFile == [kind |-> "unparseable", data |-> NoData]
\* JSON, but a list, number, string or null where the object is expected
NonObjectFile == [kind |-> "nonobject", data |-> NoData]

ObjectFile(data) == [kind |-> "object", data |-> data]

\* a JSON list
JsonList(items) == [iterable |-> TRUE, items |-> items]
\* a JSON number or null where a list is expected
JsonScalar == [iterable |-> FALSE, items |-> <<>>]

SessionData(vs, cv) ==
    [session_id |-> SessionId,
     current_version |-> cv,
     versions |-> JsonList([i \in 1 .. Len(vs) |-> to_dict(vs[i])])]

\* save_session with its body in a try block whose handler only logs
save_session_swallowing(vs, cv, file, wr) ==
    CASE wr = "ok" -> [raised |-> FALSE, file |-> ObjectFile(SessionData(vs, cv))]
      [] wr = "open_fails" -> [raised |-> FALSE, file |-> file]
      [] OTHER -> [raised |-> FALSE, file |-> UnparseableFile]

\* CodeEvolution.save_session: no handler around open() and json.dump().
\* open_fails: open() raises and the file is untouched; write_fails: the file
\* was truncated by open() and the dump stops part-way.
save_session(vs, cv, file, wr) ==
    CASE wr = "ok" -> [raised |-> FALSE, file |-> ObjectFile(SessionData(vs, cv))]
      [] wr = "open_fails" -> [raised |-> TRUE, file |-> file]
      [] OTHER -> [raised |-> TRUE, file |-> UnparseableFile]

\* The try block of load_session, from versions = [] and current_version = 0:
\* what the two fields are when the block ends, and whether it ended by an
\* exception.  current_version is assigned (line 403) before the attempt list
\* is rebuilt (line 404).
load_try(file) ==
    CASE file.kind \in {"unparseable", "nonobject"} ->
            [raised |-> TRUE, versions |-> <<>>, current_version |-> 0]
      [] OTHER ->
            LET data == file.data
                cv == IF "current_version" \in DOMAIN data
                      THEN data.current_version ELSE 0
                items == IF "versions" \in DOMAIN data
                         THEN data.versions.items ELSE <<>>
                bad == /\ "versions" \in DOMAIN data
                       /\ \/ ~data.versions.iterable
                          \/ \E i \in 1 .. Len(items) : from_dict_raises(items[i])
            IN  IF bad
                THEN [raised |-> TRUE, versions |-> <<>>, current_version |-> cv]
                ELSE [raised |-> FALSE,
                      versions |-> [i \in 1 .. Len(items) |-> from_dict(items[i])],
                      current_version |-> cv]

\* load_session with a handler that resets the attempt list only
load_session_keeping_pointer(file) ==
    IF file.kind = "missing"
    THEN [raised |-> FALSE, versions |-> <<>>, current_version |-> 0]
    ELSE [raised |-> FALSE, versions |-> load_try(file).versions,
          current_version |-> load_try(file).current_version]

\* CodeEvolution.__init__ followed by load_session: a missing file leaves the
\* fresh fields; the handler resets both fields and swallows the exception.
load_session(file) ==
    IF file.kind = "missing"
    THEN [raised |-> FALSE, versions |-> <<>>, current_version |-> 0]
    ELSE IF load_try(file).raised
         THEN [raised |-> FALSE, versions |-> <<>>, current_version |-> 0]
         ELSE load_try(file)

----------------------------------------------------------------------------
(* Error normalizer: CodeEvolution._normalize_error_message *)

Digits == {"0", "1", "2", "3", "4", "5", "6", "7", "8", "9"}

\* first index >= i of s that holds no digit (Len(s) + 1 when there is none)
RECURSIVE DigitsEnd(_, _)
DigitsEnd(s, i) ==
    IF i <= Len(s) /\ s[i] \in Digits THEN DigitsEnd(s, i + 1) ELSE i

\* first index >= i of s that holds a single quote, 0 when there is none
RECURSIVE NextQuote(_, _)
NextQuote(s, i) ==
    IF i > Len(s) THEN 0 ELSE IF s[i] = "'" THEN i ELSE NextQuote(s, i + 1)

\* a matcher that takes one digit for the line and one for the column
MatchLocationOneDigit(s, i) ==
    IF i + 4 <= Len(s) /\ s[i] = "(" /\ s[i + 1] \in Digits /\ s[i + 2] = ","
       /\ s[i + 3] \in Digits /\ s[i + 4] = ")"
    THEN i + 5
    ELSE 0

\* r'\(\d+,\d+\)' matched at i: the index after the match, 0 for no match
MatchLocation(s, i) ==
    IF i <= Len(s) /\ s[i] = "("
    THEN LET a == DigitsEnd(s, i + 1) IN
         IF a > i + 1 /\ a <= Len(s) /\ s[a] = ","
         THEN LET b == DigitsEnd(s, a + 1) IN
              IF b > a + 1 /\ b <= Len(s) /\ s[b] = ")" THEN b + 1 ELSE 0
         ELSE 0
    ELSE 0

\* r'line \d+' matched at i
MatchLine(s, i) ==
    IF i + 2 <= Len(s) /\ s[i] = "line" /\ s[i + 1] = " " /\ s[i + 2] \in Digits
    THEN DigitsEnd(s, i + 2)
    ELSE 0

\* r"'[^']*'" matched at i
MatchQuoted(s, i) ==
    IF i <= Len(s) /\ s[i] = "'" /\ NextQuote(s, i + 1) # 0
    THEN NextQuote(s, i + 1) + 1
    ELSE 0

\* re.sub(r'\(\d+,\d+\)', '', s), scanning from index i
RECURSIVE SubLocations(_, _)
SubLocations(s, i) ==
    IF i > Len(s) THEN <<>>
    ELSE IF MatchLocation(s, i) # 0 THEN SubLocations(s, MatchLocation(s, i))
    ELSE <<s[i]>> \o SubLocations(s, i + 1)

\* re.sub(r'line \d+', 'line X', s)
RECURSIVE SubLines(_, _)
SubLines(s, i) ==
    IF i > Len(s) THEN <<>>
    ELSE IF MatchLine(s, i) # 0
         THEN <<"line", " ", "X">> \o SubLines(s, MatchLine(s, i))
    ELSE <<s[i]>> \o SubLines(s, i + 1)

\* re.sub(r"'[^']*'", "'IDENTIFIER'", s)
RECURSIVE SubQuoted(_, _)
SubQuoted(s, i) ==
    IF i > Len(s) THEN <<>>
    ELSE IF MatchQuoted(s, i) # 0
         THEN <<"'", "IDENTIFIER", "'">> \o SubQuoted(s, MatchQuoted(s, i))
    ELSE <<s[i]>> \o SubQuoted(s, i + 1)

\* str.strip()
RECURSIVE LStrip(_)
LStrip(s) == IF s # <<>> /\ Head(s) = " " THEN LStrip(Tail(s)) ELSE s

RECURSIVE RStrip(_)
RStrip(s) ==
    IF s # <<>> /\ s[Len(s)] = " " THEN RStrip(SubSeq(s, 1, Len(s) - 1)) ELSE s

strip(s) == RStrip(LStrip(s))

\* str.lower(), symbol by symbol
LowerSym(c) ==
    CASE c = "X" -> "x"
      [] c = "IDENTIFIER" -> "identifier"
      [] c = "Line" -> "line"
      [] c = "Undeclared identifier" -> "undeclared identifier"
      [] OTHER -> c

lower(s) == [i \in 1 .. Len(s) |-> LowerSym(s[i])]

normalize_error_message(error_msg) ==
    lower(strip(SubQuoted(SubLines(SubLocations(error_msg, 1), 1), 1)))

----------------------------------------------------------------------------
(* Version store: CodeEvolution *)

\* value of keyword argument k of call a, or its default
Arg(a, k, default) == IF k \in DOMAIN a THEN a[k] ELSE default

\* the current pointer set to the length of the list
CurrentIndexPastEnd(vs) == Len(vs)

\* add_version, line 116: the current pointer after the append
NewCurrentIndex(vs) == Len(vs) - 1

\* CodeEvolution.add_version on the store st = [versions, current_version,
\* file, clock] with keyword arguments a; wr is what the file system does with
\* the write.  The attempt is appended and made current before the session is
\* saved, and save_session's exception is not caught.
add_version(st, a, wr) ==
    LET version_id == VersionId(a.iteration, a.code)
        changes == IF st.versions # <<>>
                   THEN calculate_diff(Last(st.versions).code, a.code)
                   ELSE <<>>
        version == [version_id |-> version_id,
                    code |-> a.code,
                    timestamp |-> Instant(st.clock),
                    iteration |-> a.iteration,
                    quality_score |-> Arg(a, "quality_score", 0),
                    compilation_success |-> Arg(a, "compilation_success", FALSE),
                    review_feedback |-> Arg(a, "review_feedback", ""),
                    changes_from_previous |-> changes,
                    improvement_areas |-> Arg(a, "improvement_areas", <<>>),
                    compilation_errors |-> Arg(a, "compilation_errors", <<>>),
                    fixed_errors |-> Arg(a, "fixed_errors", <<>>)]
        vs == Append(st.versions, version)
        cv == NewCurrentIndex(vs)
        saved == save_session(vs, cv, st.file, wr)
    IN  [versions |-> vs,
         current_version |-> cv,
         file |-> saved.file,
         clock |-> st.clock + 1,
         raised |-> saved.raised,
         write |-> wr,
         value |-> IF saved.raised THEN NoId ELSE version_id]

\* Python list indexing vs[i]: negative indices count from the end
\* (IndexError, where Python raises it, is [raised |-> TRUE])
Index(vs, i) ==
    IF 0 <= i /\ i < Len(vs) THEN vs[i + 1]
    ELSE IF -Len(vs) <= i /\ i < 0 THEN vs[Len(vs) + i + 1]
    ELSE [raised |-> TRUE]

get_current_version(vs, cv) == IF vs # <<>> THEN Index(vs, cv) ELSE NoVersion

\* index (from 1) of the first attempt with this id, 0 when there is none
RECURSIVE FirstWithId(_, _, _)
FirstWithId(vs, version_id, i) ==
    IF i > Len(vs) THEN 0
    ELSE IF vs[i].version_id = version_id THEN i
    ELSE FirstWithId(vs, version_id, i + 1)

get_version_by_id(vs, version_id) ==
    IF FirstWithId(vs, version_id, 1) = 0 THEN NoVersion
    ELSE vs[FirstWithId(vs, version_id, 1)]

\* the error messages of all attempts, in list order
RECURSIVE AllErrorMessages(_)
AllErrorMessages(vs) ==
    IF vs = <<>> THEN <<>>
    ELSE [j \in 1 .. Len(Head(vs).compilation_errors) |->
                Head(vs).compilation_errors[j].error_message]
         \o AllErrorMessages(Tail(vs))

\* the tally without the increment of a key already present
CountIntoOnce(d, key) ==
    IF \E i \in 1 .. Len(d) : d[i].key = key
    THEN d
    ELSE Append(d, [key |-> key, count |-> 1])

\* d[key] = d.get(key, 0) + 1 on an insertion-ordered dict, kept as a sequence
\* of [key, count] items
CountInto(d, key) ==
    IF \E i \in 1 .. Len(d) : d[i].key = key
    THEN [i \in 1 .. Len(d) |->
            IF d[i].key = key THEN [key |-> key, count |-> d[i].count + 1] ELSE d[i]]
    ELSE Append(d, [key |-> key, count |-> 1])

RECURSIVE TallyErrors(_, _)
TallyErrors(msgs, d) ==
    IF msgs = <<>> THEN d
    ELSE TallyErrors(Tail(msgs), CountInto(d, normalize_error_message(Head(msgs))))

\* a descending sort that puts an item in front of the items of equal count
InsertBeforeTies(sorted, item) ==
    LET n == Cardinality({i \in 1 .. Len(sorted) : sorted[i].count > item.count})
    IN  SubSeq(sorted, 1, n) \o <<item>> \o SubSeq(sorted, n + 1, Len(sorted))

\* one step of sorted(items, key=count, reverse=True): the item goes behind every
\* item whose count is not smaller (the sort is stable, also when reversed)
InsertByCount(sorted, item) ==
    LET n == Cardinality({i \in 1 .. Len(sorted) : sorted[i].count >= item.count})
    IN  SubSeq(sorted, 1, n) \o <<item>> \o SubSeq(sorted, n + 1, Len(sorted))

RECURSIVE SortByCount(_, _)
SortByCount(items, sorted) ==
    IF items = <<>> THEN sorted
    ELSE SortByCount(Tail(items), InsertByCount(sorted, Head(items)))

\* CodeEvolution.get_recurring_errors: the insertion-ordered result dict as a
\* sequence of [key, count] items
get_recurring_errors(vs) ==
    SortByCount(TallyErrors(AllErrorMessages(vs), <<>>), <<>>)

\* max(versions, key = quality_score), one element at a time: a later
\* attempt replaces the best so far only when its score is larger
RECURSIVE max_by_score(_, _)
max_by_score(best, rest) ==
    IF rest = <<>> THEN best
    ELSE max_by_score(IF Head(rest).quality_score > best.quality_score
                      THEN Head(rest) ELSE best,
                      Tail(rest))

\* CodeEvolution.get_best_version, lines 173-178
get_best_version(vs) ==
    IF vs = <<>> THEN NoVersion ELSE max_by_score(Head(vs), Tail(vs))

\* a direction that compares the last attempt with the one before it
direction_of_last_two(vs) ==
    IF Len(vs) < 3 THEN "insufficient_data"
    ELSE LET recent_scores == [i \in 1 .. 3 |-> LastN(vs, 3)[i].quality_score] IN
         IF recent_scores[3] > recent_scores[2] THEN "improving"
         ELSE IF recent_scores[3] < recent_scores[2] THEN "degrading"
         ELSE "stable"

\* CodeEvolution._calculate_evolution_direction, lines 325-337
calculate_evolution_direction(vs) ==
    IF Len(vs) < 3 THEN "insufficient_data"
    ELSE LET recent_scores == [i \in 1 .. 3 |-> LastN(vs, 3)[i].quality_score] IN
         IF recent_scores[3] > recent_scores[1] THEN "improving"
         ELSE IF recent_scores[3] < recent_scores[1] THEN "degrading"
         ELSE "stable"

\* every fixed_errors descriptor of every attempt, in list order
RECURSIVE AllFixedErrors(_)
AllFixedErrors(vs) ==
    IF vs = <<>> THEN <<>> ELSE Head(vs).fixed_errors \o AllFixedErrors(Tail(vs))

\* the dict fixed_patterns of get_error_learning_context, lines 254-257, as a
\* sequence of [key, count] items in insertion order
RECURSIVE TallyFixed(_, _)
TallyFixed(fixed, d) ==
    IF fixed = <<>> THEN d ELSE TallyFixed(Tail(fixed), CountInto(d, Head(fixed)))

\* get_error_learning_context, lines 241-242 and 253-262: whether the text has
\* the section of fixed errors, and the descriptors the section lists
fixed_section(vs) ==
    LET fixed_patterns == TallyFixed(AllFixedErrors(vs), <<>>)
        shown == SubSeq(fixed_patterns, 1,
                        IF Len(fixed_patterns) < 3 THEN Len(fixed_patterns) ELSE 3)
    IN  IF vs = <<>> \/ fixed_patterns = <<>>
        THEN [present |-> FALSE, entries |-> <<>>]
        ELSE [present |-> TRUE, entries |-> [i \in 1 .. Len(shown) |-> shown[i].key]]

----------------------------------------------------------------------------
(* Inputs: compiler messages, error records, arguments, files on disk *)

MsgSemicolon ==
    <<"'", ";", "'", " ", "-", " ", "semicolon expected", " ", "(", "1", "2", ",", "4", ")">>
MsgUndeclaredX ==
    <<"'", "x", "'", " ", "-", " ", "undeclared identifier", " ", "(", "3", ",", "1", ")">>
MsgUndeclaredY ==
    <<"'", "y", "'", " ", "-", " ", "undeclared identifier", " ", "(", "7", ",", "5", ")">>
MsgSyntaxLine == <<"syntax error", " ", "line", " ", "4">>

\* CodeValidator._parse_compilation_errors builds its records this way
ValidatorError(line) == CompilationError("compilation_error", line, NoLine, line, "")

\* parse_compilation_errors_from_log fills in a line number
LogError(message, n) ==
    [error_type |-> "compilation_error", error_message |-> message, line_number |-> n,
     code_snippet |-> message, solution_attempt |-> ""]

DescSyntax == <<"syntax", ":", " ", "Kompilierung fehlgeschlagen">>
DescFtmo == <<"ftmo", ":", " ", "FTMO-Maengel">>
DescReview == <<"review", ":", " ", "Review nicht bestanden">>
DescTrading == <<"trading", ":", " ", "Trading-Logik fehlt">>

\* keyword arguments besides code and iteration that a direct caller passes
Payloads ==
    { [improvement_areas |-> <<"initial_development">>],
      [quality_score |-> 50, compilation_success |-> FALSE,
       review_feedback |-> "Template-based automatic fix",
       improvement_areas |-> <<"syntax_fixing">>,
       compilation_errors |-> <<ValidatorError(MsgSyntaxLine), ValidatorError(MsgUndeclaredX)>>,
       fixed_errors |-> <<>>],
      [quality_score |-> 70, compilation_success |-> TRUE,
       review_feedback |-> "ok",
       improvement_areas |-> <<"syntax_fixing", "review_feedback">>,
       compilation_errors |-> <<LogError(MsgUndeclaredY, 7), ValidatorError(MsgSemicolon)>>,
       fixed_errors |-> <<DescSyntax>>],
      [quality_score |-> 50, compilation_success |-> TRUE,
       fixed_errors |-> <<DescSyntax, DescFtmo, DescReview, DescTrading, DescTrading>>] }

CallArgs(code, it, payload) ==
    [k \in {"code", "iteration"} \cup DOMAIN payload |->
        CASE k = "code" -> code
          [] k = "iteration" -> it
          [] OTHER -> payload[k]]

EmptyStore == [versions |-> <<>>, current_version |-> 0, file |-> MissingFile, clock |-> 0]

\* a session saved by an earlier process: one attempt with errors
SavedFile ==
    add_version(EmptyStore,
                [code |-> 1, iteration |-> 0, quality_score |-> 30,
                 review_feedback |-> "r",
                 compilation_errors |-> <<LogError(MsgSemicolon, 12)>>,
                 fixed_errors |-> <<DescFtmo>>],
                "ok").file

RemoveKeys(d, keys) == [k \in DOMAIN d \ keys |-> d[k]]

\* the same, written before the error memory existed: the records have no
\* compilation_errors and no fixed_errors
LegacyFile ==
    ObjectFile([SavedFile.data EXCEPT !.versions =
        JsonList([i \in 1 .. Len(SavedFile.data.versions.items) |->
            RemoveKeys(SavedFile.data.versions.items[i],
                       {"compilation_errors", "fixed_errors"})])])

\* a well-formed first record followed by a record without its code
FileWithBrokenRecord ==
    ObjectFile([session_id |-> SessionId, current_version |-> 1,
                versions |-> JsonList(SavedFile.data.versions.items
                    \o <<RemoveKeys(SavedFile.data.versions.items[1], {"code"})>>)])

\* a record whose timestamp does not parse
FileWithBadTimestamp ==
    ObjectFile([session_id |-> SessionId, current_version |-> 0,
                versions |-> JsonList(<<[SavedFile.data.versions.items[1]
                                            EXCEPT !.timestamp = <<>>]>>)])

\* "versions" holds a number where the list is expected
FileWithScalarVersions ==
    ObjectFile([session_id |-> SessionId, current_version |-> 2, versions |-> JsonScalar])

MalformedFiles ==
    {UnparseableFile, NonObjectFile, FileWithBrokenRecord, FileWithBadTimestamp,
     FileWithScalarVersions}

InitialFiles == {MissingFile, SavedFile, LegacyFile} \cup MalformedFiles

----------------------------------------------------------------------------
(* Orchestrator inputs: SmartLLMLoop.run *)

\* run's target_quality (0.85) and the score is_satisfied asks for (0.8)
TargetQuality == 85
SatisfiedScore == 80

\* outcomes of validate_and_review_code: the overall score, the syntax result
\* with its parsed errors, the review and whether it says "ZUFRIEDEN: JA" and
\* "SYNTAX: BESTANDEN", and the descriptors "<category>: <details>" of the
\* failed categories that carry an error type
Validations ==
    { [score |-> 30, success |-> FALSE, review |-> "review: nein", approved |-> FALSE,
       compilation_errors |-> <<ValidatorError(MsgSemicolon), ValidatorError(MsgUndeclaredX)>>,
       failed |-> <<DescSyntax>>],
      [score |-> 70, success |-> TRUE, review |-> "review: fast", approved |-> FALSE,
       compilation_errors |-> <<>>,
       failed |-> <<DescFtmo>>],
      [score |-> 90, success |-> TRUE, review |-> "review: ja", approved |-> TRUE,
       compilation_errors |-> <<>>,
       failed |-> <<>>] }

NoValidation ==
    [score |-> 0, success |-> FALSE, review |-> "", approved |-> FALSE,
     compilation_errors |-> <<>>, failed |-> <<>>]

\* s restricted to the elements that satisfy keep, order kept
RECURSIVE SelectNotIn(_, _)
SelectNotIn(s, excluded) ==
    IF s = <<>> THEN <<>>
    ELSE IF Head(s) \in excluded THEN SelectNotIn(Tail(s), excluded)
    ELSE <<Head(s)>> \o SelectNotIn(Tail(s), excluded)

\* run, lines 576-579: the descriptors among the last 5 of errors_history that
\* are not the message of a current compilation error
FixedErrors(history, compilation_errors) ==
    SelectNotIn(LastN(history, 5),
                {compilation_errors[i].error_message : i \in 1 .. Len(compilation_errors)})

is_satisfied(val) == val.approved /\ val.score >= SatisfiedScore /\ val.success

----------------------------------------------------------------------------
(* Success pattern learner: numbers, hashes, pattern records *)

PatternFields == {"pattern_id", "error_signature", "original_code_snippet",
                  "fixed_code_snippet", "fix_type", "success_rate", "usage_count",
                  "last_used", "confidence"}

\* A confidence is a double: the double nearest to h hundredths, plus ulp
\* units in the last place (2^-53 below 1.0).
Float(h, u) == [h |-> h, ulp |-> u]

FloatLE(a, b) == a.h < b.h \/ (a.h = b.h /\ a.ulp <= b.ulp)

\* min(a, b) of Python: b only when b < a
FloatMin(a, b) == IF FloatLE(a, b) THEN a ELSE b

\* _create_pattern: confidence=0.8; _update_or_add_pattern: min(0.95, ...)
InitialConfidence == Float(80, 0)
ConfidenceCap == Float(95, 0)

\* c + 0.05 in IEEE double arithmetic, round to nearest even:
\* 0.8 + 0.05 = 0.8500000000000001, 0.8500000000000001 + 0.05 =
\* 0.9000000000000001, 0.9000000000000001 + 0.05 = 0.9500000000000002,
\* 0.95 + 0.05 = 1.0
AddConfidenceStep(c) ==
    CASE c = Float(80, 0) -> Float(85, 1)
      [] c = Float(85, 1) -> Float(90, 1)
      [] c = Float(90, 1) -> Float(95, 2)
      [] c = Float(95, 0) -> Float(100, 0)
      [] OTHER -> Float(c.h + 5, c.ulp)

\* the confidence of a repeated success without the cap
raise_confidence_uncapped(c) == AddConfidenceStep(c)

\* line 201: min(0.95, existing.confidence + 0.05)
raise_confidence(c) == FloatMin(ConfidenceCap, AddConfidenceStep(c))

\* success rates, in thousandths: success_rate=1.0 of a new pattern, alpha = 0.1
InitialSuccessRate == 1000
Alpha == 100

\* line 198: (1 - alpha) * success_rate + alpha * 1.0
moving_average(rate) == ((1000 - Alpha) * rate + Alpha * 1000) \div 1000

\* hash(text) of a str: a 64-bit value fixed by the text and the salt the
\* process drew at start-up; the few texts here do not collide.  The first
\* process has salt 0, a later one the same salt or another.
HashSeeds == {0, 1}
py_hash(seed, text) == [salt |-> seed, of |-> text]

\* f"{hash(error_signature)}_{hash(original_line)}"
PatternId(seed, error_signature, original_line) ==
    <<py_hash(seed, error_signature), py_hash(seed, original_line)>>

\* the value of last_used: a datetime in a pattern made by this process, the
\* text of the file in a pattern that load_patterns built
DateTime(t) == [kind |-> "datetime", value |-> t]
Str(text) == [kind |-> "str", value |-> text]

----------------------------------------------------------------------------
(* Success pattern learner: texts *)

\* word in symbol, as substrings: a symbol holds itself and the words inside it
SymbolHas(sym, word) ==
    \/ sym = word
    \/ sym = "unexpected" /\ word = "expected"
    \/ sym = "AskPrice" /\ word = "Ask"

\* word in text
Contains(text, word) == \E i \in 1 .. Len(text) : SymbolHas(text[i], word)

\* text.count(ch) for a one-character symbol
Count(text, ch) == Cardinality({i \in 1 .. Len(text) : text[i] = ch})

\* text.endswith(ch)
EndsWith(text, ch) == text # <<>> /\ text[Len(text)] = ch

\* text.split('\n')
RECURSIVE split_lines(_, _)
split_lines(text, line) ==
    IF text = <<>> THEN <<line>>
    ELSE IF Head(text) = "\n" THEN <<line>> \o split_lines(Tail(text), <<>>)
    ELSE split_lines(Tail(text), Append(line, Head(text)))

\* sep.join(parts)
RECURSIVE join(_, _)
join(sep, parts) ==
    IF parts = <<>> THEN <<>>
    ELSE IF Len(parts) = 1 THEN Head(parts)
    ELSE Head(parts) \o <<sep>> \o join(sep, Tail(parts))

----------------------------------------------------------------------------
(* difflib.SequenceMatcher(None, a, b).get_opcodes(), indices from 0 *)

\* length of the common run of a and b that starts at a[i], b[j] and stays
\* below ahi, bhi
RECURSIVE RunLength(_, _, _, _, _, _)
RunLength(a, b, i, j, ahi, bhi) ==
    IF i < ahi /\ j < bhi /\ a[i + 1] = b[j + 1]
    THEN 1 + RunLength(a, b, i + 1, j + 1, ahi, bhi)
    ELSE 0

\* find_longest_match(alo, ahi, blo, bhi): the longest block, of those the one
\* that starts earliest in a, of those the one that starts earliest in b
find_longest_match(a, b, alo, ahi, blo, bhi) ==
    LET cands == {<<i, j, RunLength(a, b, i, j, ahi, bhi)>> :
                    i \in alo .. ahi - 1, j \in blo .. bhi - 1}
        good == {c \in cands : c[3] > 0}
    IN  IF good = {} THEN <<alo, blo, 0>>
        ELSE CHOOSE c \in good : \A d \in good :
                \/ c[3] > d[3]
                \/ c[3] = d[3] /\ c[1] < d[1]
                \/ c[3] = d[3] /\ c[1] = d[1] /\ c[2] <= d[2]

\* get_matching_blocks without the closing sentinel
RECURSIVE matching_blocks(_, _, _, _, _, _)
matching_blocks(a, b, alo, ahi, blo, bhi) ==
    LET m == find_longest_match(a, b, alo, ahi, blo, bhi) IN
    IF m[3] = 0 THEN <<>>
    ELSE (IF alo < m[1] /\ blo < m[2]
          THEN matching_blocks(a, b, alo, m[1], blo, m[2]) ELSE <<>>)
         \o <<m>>
         \o (IF m[1] + m[3] < ahi /\ m[2] + m[3] < bhi
             THEN matching_blocks(a, b, m[1] + m[3], ahi, m[2] + m[3], bhi)
             ELSE <<>>)

Opcode(tag, i1, i2, j1, j2) == [tag |-> tag, i1 |-> i1, i2 |-> i2, j1 |-> j1, j2 |-> j2]

\* the opcodes from position (i, j) on, over the blocks that remain
RECURSIVE opcodes_from(_, _, _)
opcodes_from(blocks, i, j) ==
    IF blocks = <<>> THEN <<>>
    ELSE LET ai == Head(blocks)[1]
             bj == Head(blocks)[2]
             size == Head(blocks)[3]
             gap == IF i < ai /\ j < bj THEN <<Opcode("replace", i, ai, j, bj)>>
                    ELSE IF i < ai THEN <<Opcode("delete", i, ai, j, bj)>>
                    ELSE IF j < bj THEN <<Opcode("insert", i, ai, j, bj)>>
                    ELSE <<>>
             same == IF size > 0
                     THEN <<Opcode("equal", ai, ai + size, bj, bj + size)>>
                     ELSE <<>>
         IN  gap \o same \o opcodes_from(Tail(blocks), ai + size, bj + size)

get_opcodes(a, b) ==
    opcodes_from(matching_blocks(a, b, 0, Len(a), 0, Len(b))
                    \o <<(<<Len(a), Len(b), 0>>)>>, 0, 0)

----------------------------------------------------------------------------
(* SuccessPatternLearner *)

Change(type, original, fixed, line_number) ==
    [type |-> type, original |-> original, fixed |-> fixed,
     line_number |-> line_number]

\* the changes one opcode contributes: a replace of one line by one line, or
\* one change per inserted line
ChangesOf(op, original_lines, fixed_lines) ==
    IF op.tag = "replace"
    THEN IF op.i2 - op.i1 = 1 /\ op.j2 - op.j1 = 1
         THEN <<Change("line_replace", original_lines[op.i1 + 1],
                       fixed_lines[op.j1 + 1], op.i1)>>
         ELSE <<>>
    ELSE IF op.tag = "insert"
    THEN [k \in 1 .. op.j2 - op.j1 |->
            Change("line_insert", <<>>, fixed_lines[op.j1 + k], op.i1)]
    ELSE <<>>

\* _extract_changes
extract_changes(original, fixed) ==
    LET original_lines == split_lines(original, <<>>)
        fixed_lines == split_lines(fixed, <<>>)
        ops == get_opcodes(original_lines, fixed_lines)
    IN  Flatten([k \in 1 .. Len(ops) |-> ChangesOf(ops[k], original_lines, fixed_lines)])

\* _create_error_signature: the list of signatures before the join
signatures(line, error_messages) ==
    LET joined == join(" ", error_messages) IN
       (IF Contains(line, "MarketInfo") THEN <<"deprecated_marketinfo">> ELSE <<>>)
    \o (IF \E op \in {"OP_BUY", "OP_SELL", "OP_BUYLIMIT"} : Contains(line, op)
        THEN <<"deprecated_order_constant">> ELSE <<>>)
    \o (IF \E var \in {"Ask", "Bid", "Point", "Digits"} : Contains(line, var)
        THEN <<"deprecated_account_variable">> ELSE <<>>)
    \o (IF \E msg \in {"expected", "undeclared", "syntax error"} : Contains(joined, msg)
        THEN IF ~EndsWith(line, ";") /\ (Contains(line, "=") \/ Contains(line, "return"))
             THEN <<"missing_semicolon">>
             ELSE IF Count(line, "(") # Count(line, ")")
             THEN <<"missing_parenthesis">>
             ELSE <<>>
        ELSE <<>>)

\* _create_error_signature: '_'.join(signatures), the empty text standing for None
create_error_signature(line, error_messages) ==
    LET sigs == signatures(line, error_messages) IN
    join("_", [k \in 1 .. Len(sigs) |-> <<sigs[k]>>])

\* _determine_fix_type
determine_fix_type(original, fixed) ==
    IF Contains(original, "MarketInfo") /\ Contains(fixed, "SymbolInfo")
    THEN "deprecated_function"
    ELSE IF \E old \in {"Ask", "Bid", "Point", "Digits"} : Contains(original, old)
    THEN "deprecated_variable"
    ELSE IF Append(RStrip(original), ";") = fixed THEN "syntax_semicolon"
    ELSE IF Append(original, ")") = fixed THEN "syntax_parenthesis"
    ELSE "unknown"

\* _create_pattern: None (lines 115-127), or the new pattern; now is the clock
\* reading of line 142
create_pattern(change, error_messages, seed, now) ==
    LET original_line == strip(change.original)
        fixed_line == strip(change.fixed)
        error_signature == create_error_signature(original_line, error_messages)
    IN  IF \/ change.type # "line_replace"
           \/ original_line = <<>>
           \/ fixed_line = <<>>
           \/ error_signature = <<>>
        THEN [none |-> TRUE]
        ELSE [none |-> FALSE,
              pattern |->
                [pattern_id |-> PatternId(seed, error_signature, original_line),
                 error_signature |-> error_signature,
                 original_code_snippet |-> original_line,
                 fixed_code_snippet |-> fixed_line,
                 fix_type |-> determine_fix_type(original_line, fixed_line),
                 success_rate |-> InitialSuccessRate,
                 usage_count |-> 1,
                 last_used |-> DateTime(Instant(now)),
                 confidence |-> InitialConfidence]]

\* position of the pattern with this id in the registry, 0 when there is none
RECURSIVE Position(_, _, _)
Position(ps, id, i) ==
    IF i > Len(ps) THEN 0
    ELSE IF ps[i].pattern_id = id THEN i
    ELSE Position(ps, id, i + 1)

\* an update that leaves the usage count as it was
updated_pattern_without_count(existing, now) ==
    [existing EXCEPT !.last_used = DateTime(Instant(now)),
                     !.success_rate = moving_average(@),
                     !.confidence = raise_confidence(@)]

\* the existing pattern after one more success; now is the reading of line 194
updated_pattern(existing, now) ==
    [existing EXCEPT !.usage_count = @ + 1,
                     !.last_used = DateTime(Instant(now)),
                     !.success_rate = moving_average(@),
                     !.confidence = raise_confidence(@)]

\* _update_or_add_pattern on the registry reg = [patterns, clock]
update_or_add_pattern(reg, new_pattern) ==
    LET at == Position(reg.patterns, new_pattern.pattern_id, 1) IN
    IF at # 0
    THEN [patterns |-> [reg.patterns EXCEPT ![at] = updated_pattern(@, reg.clock)],
          clock |-> reg.clock + 1]
    ELSE [patterns |-> Append(reg.patterns, new_pattern), clock |-> reg.clock]

\* the loop of learn_from_success over the changes
RECURSIVE learn_changes(_, _, _, _)
learn_changes(reg, changes, error_messages, seed) ==
    IF changes = <<>> THEN reg
    ELSE LET made == create_pattern(Head(changes), error_messages, seed, reg.clock) IN
         IF made.none
         THEN learn_changes(reg, Tail(changes), error_messages, seed)
         ELSE learn_changes(
                update_or_add_pattern([reg EXCEPT !.clock = @ + 1], made.pattern),
                Tail(changes), error_messages, seed)

\* the pattern files
PatternListFile(items) == [kind |-> "list", data |-> items]
\* JSON, but an object with keys, a number or null where the list is expected
NonListFile == [kind |-> "nonlist", data |-> <<>>]

\* asdict(pattern) with last_used replaced by its isoformat text
pattern_to_dict(p) ==
    [k \in PatternFields |->
        IF k = "last_used" THEN isoformat(p.last_used.value) ELSE p[k]]

\* save_patterns: every exception is caught and printed.  A last_used that is
\* a str has no isoformat(), which ends the try block before the file is opened.
save_patterns(ps, file, wr) ==
    IF \E i \in 1 .. Len(ps) : ps[i].last_used.kind # "datetime"
    THEN [file |-> file, raised |-> FALSE, write |-> "none", written |-> FALSE]
    ELSE CASE wr = "ok" ->
                [file |-> PatternListFile([i \in 1 .. Len(ps) |-> pattern_to_dict(ps[i])]),
                 raised |-> FALSE, write |-> wr, written |-> TRUE]
           [] wr = "open_fails" ->
                [file |-> file, raised |-> FALSE, write |-> wr, written |-> FALSE]
           [] OTHER ->
                [file |-> UnparseableFile, raised |-> FALSE, write |-> wr,
                 written |-> FALSE]

\* SuccessPattern(**pattern_data): the keys must be the fields; no value is
\* converted, so last_used stays the text of the file
pattern_from_dict_raises(d) == DOMAIN d # PatternFields

pattern_from_dict(d) ==
    [k \in PatternFields |-> IF k = "last_used" THEN Str(d[k]) ELSE d[k]]

\* self.patterns[pattern.pattern_id] = pattern
Put(ps, p) ==
    LET at == Position(ps, p.pattern_id, 1) IN
    IF at # 0 THEN [ps EXCEPT ![at] = p] ELSE Append(ps, p)

\* the loop of load_patterns: it stops at the first record that raises and
\* keeps what it has put so far
RECURSIVE load_items(_, _)
load_items(ps, items) ==
    IF items = <<>> \/ pattern_from_dict_raises(Head(items)) THEN ps
    ELSE load_items(Put(ps, pattern_from_dict(Head(items))), Tail(items))

\* load_patterns from the empty registry of __init__
load_patterns(file) ==
    IF file.kind = "list" THEN load_items(<<>>, file.data) ELSE <<>>

----------------------------------------------------------------------------
(* Inputs of the learner *)

LineAssign == <<" ", "x", "=", "1">>
LineAssignFixed == <<" ", "x", "=", "1", ";">>
LineMarket == <<"y", "=", "MarketInfo", "(", ")", ";">>
LineMarketFixed == <<"y", "=", "SymbolInfo", "(", ")", ";">>
LineCall == <<"f", "(", "a">>
LineCallFixed == <<"f", "(", "a", ")">>
LineComment == <<"//">>

Code(lines) == join("\n", lines)

ErrorsSemicolon == << <<"semicolon", " ", "expected">> >>
ErrorsToken == << <<"unexpected", " ", "token">>, <<"other">> >>
ErrorsNone == <<>>

LearnInput(original, fixed, success, errors) ==
    [original_code |-> Code(original), fixed_code |-> Code(fixed),
     compilation_success |-> success, error_messages |-> errors]

LearnInputs ==
    { LearnInput(<<LineAssign, LineMarket>>, <<LineAssignFixed, LineMarket>>, TRUE,
                 ErrorsSemicolon),
      LearnInput(<<LineAssign, LineMarket>>, <<LineAssign, LineMarketFixed>>, TRUE,
                 ErrorsNone),
      LearnInput(<<LineAssign, LineMarket>>, <<LineAssignFixed, LineMarketFixed>>, TRUE,
                 ErrorsSemicolon),
      LearnInput(<<LineAssign, LineComment, LineMarket>>,
                 <<LineAssignFixed, LineComment, LineMarketFixed>>, TRUE, ErrorsToken),
      LearnInput(<<LineAssign, LineMarket>>, <<LineAssignFixed, LineMarket>>, FALSE,
                 ErrorsSemicolon),
      LearnInput(<<LineAssign, LineMarket>>, <<LineAssign, LineMarketFixed>>, FALSE,
                 ErrorsNone),
      LearnInput(<<LineCall>>, <<LineCall, LineComment>>, TRUE, ErrorsToken) }

\* line 70: the changes extracted from each input, tabulated
ExtractedChanges ==
    [input \in LearnInputs |-> extract_changes(input.original_code, input.fixed_code)]

\* a learner that learns from failed builds too
compilation_ignored(input) == TRUE

\* lines 66-67: only a successful build is learned from
compilation_succeeded(input) == input.compilation_success

\* learn_from_success, lines 70-76: the registry and the clock after the
\* loop over the extracted changes
learned(ps, now, seed, input) ==
    learn_changes([patterns |-> ps, clock |-> now], ExtractedChanges[input],
                  input.error_messages, seed)

\* no call of learn_from_success
NoInput == LearnInput(<<>>, <<>>, FALSE, <<>>)

\* a library written by an earlier process (salt 1) that learned the
\* parenthesis repair once
StoredPattern ==
    pattern_to_dict(
        create_pattern(Change("line_replace", LineCall, LineCallFixed, 0),
                       ErrorsToken, 1, 0).pattern)

\* the same library with a second record that lacks its confidence
PatternFileWithBrokenRecord ==
    PatternListFile(<<StoredPattern,
                      [k \in PatternFields \ {"confidence"} |-> StoredPattern[k]]>>)

MalformedPatternFiles == {UnparseableFile, NonListFile, PatternFileWithBrokenRecord}

InitialPatternFiles == {MissingFile} \cup MalformedPatternFiles

----------------------------------------------------------------------------
(* The error categorizer: error_categorizer.py *)

\* an entry of a pattern table; its regular expression is kept as the set of
\* its alternatives, each a literal text
Entry(alternatives, type, strategy, template, priority) ==
    [pattern |-> alternatives, type |-> type, strategy |-> strategy,
     template |-> template, priority |-> priority]

Quoted(word) == <<"'", word, "'">>
Dash == <<" ", "-", " ">>

\* lines 33-58, in the order of the dict
SIMPLE_PATTERNS == <<
    Entry({Quoted(";") \o Dash \o <<"semicolon expected">>},
          "missing_semicolon", "Add missing semicolon",
          <<"Line ", "{line}", ": Add ; at end of statement">>, 1),
    Entry({Quoted(")") \o Dash \o <<")", " expected">>},
          "missing_parenthesis", "Add missing closing parenthesis",
          <<"Line ", "{line}", ": Add ) to close function call">>, 1),
    Entry({Quoted("}") \o Dash \o <<"}", " expected">>},
          "missing_brace", "Add missing closing brace",
          <<"Line ", "{line}", ": Add ", "}", " to close block">>, 1),
    Entry({<<"undeclared identifier">>},
          "undeclared_variable", "Declare variable or fix typo",
          <<"Line ", "{line}", ": Declare ", "{variable}", " or check spelling">>, 2) >>

\* lines 61-86; the | of a regular expression binds weaker than the text on
\* either side of it
MEDIUM_PATTERNS == <<
    Entry({<<"wrong parameters count">>},
          "wrong_parameters", "Fix function parameters",
          <<"Line ", "{line}", ": Check ", "{function}", " parameter count">>, 3),
    Entry({Quoted("MarketInfo") \o Dash \o <<"undeclared identifier">>},
          "deprecated_function", "Replace with MQL5 equivalent",
          <<"Line ", "{line}", ": Replace MarketInfo with SymbolInfo*">>, 3),
    Entry({Quoted("Ask"), Quoted("Bid") \o Dash \o <<"undeclared identifier">>},
          "deprecated_variable", "Replace with SymbolInfoDouble",
          <<"Line ", "{line}", ": Replace Ask/Bid with SymbolInfoDouble">>, 3),
    Entry({Quoted("OP_BUY"), Quoted("OP_SELL") \o Dash \o <<"undeclared identifier">>},
          "deprecated_constant", "Replace with ORDER_TYPE_*",
          <<"Line ", "{line}", ": Replace OP_* with ORDER_TYPE_*">>, 4) >>

\* lines 89-108
COMPLEX_PATTERNS == <<
    Entry({Quoted("OnInit") \o Dash \o <<"function not defined">>},
          "missing_function", "Add missing OnInit function",
          <<"Add complete OnInit() function with proper initialization">>, 6),
    Entry({Quoted("OnTick") \o Dash \o <<"function not defined">>},
          "missing_function", "Add missing OnTick function",
          <<"Add complete OnTick() function with trading logic">>, 6),
    Entry({Quoted("CTrade") \o Dash \o <<"undeclared identifier">>},
          "missing_include", "Add Trade.mqh include and CTrade object",
          <<"Add #include <Trade\\\\Trade.mqh> and CTrade trade;">>, 7) >>

\* re.search(pattern, text, re.IGNORECASE)
search_ignorecase(pattern, text) ==
    \E alt \in pattern : \E i \in 1 .. Len(text) - Len(alt) + 1 :
        lower(SubSeq(text, i, i + Len(alt) - 1)) = lower(alt)

\* re.search(r'\((\d+),\d+\)', text): where the first match starts at or
\* after i, 0 for no match
RECURSIVE search_location(_, _)
search_location(text, i) ==
    IF i > Len(text) THEN 0
    ELSE IF MatchLocation(text, i) # 0 THEN i
    ELSE search_location(text, i + 1)

\* group(1) of the match that starts at i
line_group(text, i) == SubSeq(text, i + 1, DigitsEnd(text, i + 1) - 1)

\* the replacement fields a template may hold
ReplacementFields == {"{line}", "{variable}", "{function}"}

\* the keyword arguments of a str.format call
FormatArgs(line_num, names) ==
    [name \in names |-> IF name = "{line}" THEN line_num ELSE <<"?">>]

\* template.format(**args): a brace that opens or closes no field raises
\* ValueError, a field without an argument raises KeyError
RECURSIVE format(_, _)
format(template, args) ==
    IF template = <<>> THEN [raised |-> FALSE, error |-> "", text |-> <<>>]
    ELSE LET head == Head(template) IN
         IF head \in {"{", "}"}
         THEN [raised |-> TRUE, error |-> "ValueError", text |-> <<>>]
         ELSE IF head \in ReplacementFields /\ head \notin DOMAIN args
         THEN [raised |-> TRUE, error |-> "KeyError", text |-> <<>>]
         ELSE LET rest == format(Tail(template), args) IN
              IF rest.raised THEN rest
              ELSE [rest EXCEPT !.text =
                        (IF head \in ReplacementFields THEN args[head] ELSE <<head>>) \o @]

\* the dataclass CategorizedError, lines 19-27
CategorizedError(message, type, complexity, strategy, template, priority) ==
    [original_message |-> message, error_type |-> type, complexity |-> complexity,
     fix_strategy |-> strategy, fix_template |-> template, priority |-> priority]

\* index of the first entry of the table whose pattern is found in the text,
\* 0 when there is none
FirstMatch(table, text) ==
    IF \E k \in 1 .. Len(table) : search_ignorecase(table[k].pattern, text)
    THEN CHOOSE k \in 1 .. Len(table) :
            /\ search_ignorecase(table[k].pattern, text)
            /\ \A j \in 1 .. k - 1 : ~search_ignorecase(table[j].pattern, text)
    ELSE 0

\* the return statement of one of the three loops of _categorize_single_error
Categorized(message, info, complexity, formatted) ==
    IF formatted.raised
    THEN [raised |-> TRUE, error |-> formatted.error]
    ELSE [raised |-> FALSE, error |-> "",
          value |-> CategorizedError(message, info.type, complexity, info.strategy,
                                     formatted.text, info.priority)]

\* _categorize_single_error, lines 126-178
categorize_single_error(error_msg) ==
    LET at == search_location(error_msg, 1)
        line_num == IF at # 0 THEN line_group(error_msg, at) ELSE <<"unknown">>
        simple == FirstMatch(SIMPLE_PATTERNS, error_msg)
        medium == FirstMatch(MEDIUM_PATTERNS, error_msg)
        complex == FirstMatch(COMPLEX_PATTERNS, error_msg)
    IN  IF simple # 0
        THEN Categorized(error_msg, SIMPLE_PATTERNS[simple], "simple",
                 format(SIMPLE_PATTERNS[simple].template,
                        FormatArgs(line_num, {"{line}", "{variable}", "{function}"})))
        ELSE IF medium # 0
        THEN Categorized(error_msg, MEDIUM_PATTERNS[medium], "medium",
                 format(MEDIUM_PATTERNS[medium].template,
                        FormatArgs(line_num, {"{line}", "{function}"})))
        ELSE IF complex # 0
        THEN Categorized(error_msg, COMPLEX_PATTERNS[complex], "complex",
                 [raised |-> FALSE, error |-> "",
                  text |-> COMPLEX_PATTERNS[complex].template])
        ELSE [raised |-> FALSE, error |-> "",
              value |-> CategorizedError(error_msg, "unknown", "medium",
                            "Manual investigation required",
                            <<"Line ">> \o line_num \o <<": Check error manually">>, 8)]

\* list.sort(key = priority) one element at a time: the element goes behind
\* every element whose priority is not larger
InsertByPriority(sorted, e) ==
    LET k == Cardinality({i \in 1 .. Len(sorted) : sorted[i].priority <= e.priority})
    IN  SubSeq(sorted, 1, k) \o <<e>> \o SubSeq(sorted, k + 1, Len(sorted))

RECURSIVE SortByPriority(_)
SortByPriority(list) ==
    IF list = <<>> THEN <<>>
    ELSE InsertByPriority(SortByPriority(SubSeq(list, 1, Len(list) - 1)), Last(list))

\* the loop of categorize_errors, lines 116-119: an exception of
\* _categorize_single_error leaves the loop and the method
RECURSIVE categorize_each(_)
categorize_each(messages) ==
    IF messages = <<>> THEN [raised |-> FALSE, error |-> "", value |-> <<>>]
    ELSE LET category == categorize_single_error(Head(messages)) IN
         IF category.raised THEN category
         ELSE LET rest == categorize_each(Tail(messages)) IN
              IF rest.raised THEN rest
              ELSE [rest EXCEPT !.value = <<category.value>> \o @]

\* categorize_errors, lines 110-124
categorize_errors(compilation_errors) ==
    LET categorized == categorize_each(compilation_errors) IN
    IF categorized.raised THEN categorized
    ELSE [categorized EXCEPT !.value = SortByPriority(@)]

\* raw compiler messages given to the categorizer
Located(text, line, col) == text \o <<" ", "(">> \o line \o <<",">> \o col \o <<")">>
MsgParenthesis ==
    Located(Quoted(")") \o Dash \o <<")", " expected">>, <<"3">>, <<"1">>)
MsgBrace == Located(Quoted("}") \o Dash \o <<"}", " expected">>, <<"5">>, <<"1">>)
MsgMarketInfo ==
    Located(Quoted("MarketInfo") \o Dash \o <<"undeclared identifier">>, <<"7">>, <<"5">>)
MsgAsk == Located(Quoted("Ask") \o Dash \o <<"other">>, <<"1">>, <<"1">>)
MsgBid == Located(Quoted("Bid") \o Dash \o <<"other">>, <<"1">>, <<"1">>)
MsgOpBuy == Located(Quoted("OP_BUY") \o Dash \o <<"other">>, <<"2">>, <<"2">>)
MsgWrongParameters == Located(<<"wrong parameters count">>, <<"4">>, <<"4">>)
MsgOnInit == Quoted("OnInit") \o Dash \o <<"function not defined">>
MsgCTrade == Quoted("CTrade") \o Dash \o <<"undeclared identifier">>
MsgUpperCase == Located(<<"Undeclared identifier">>, <<"2">>, <<"1">>)
MsgOther == <<"other">>

CatMessages ==
    {MsgSemicolon, MsgParenthesis, MsgBrace, MsgMarketInfo, MsgAsk, MsgBid, MsgOpBuy,
     MsgWrongParameters, MsgOnInit, MsgCTrade, MsgUpperCase, MsgOther}

\* the messages that lists are made of, and the lists of at most n of them
ListMessages ==
    {MsgSemicolon, MsgParenthesis, MsgBrace, MsgUpperCase, MsgAsk,
     MsgWrongParameters, MsgOnInit, MsgOther}
MessageLists(n) == UNION {[1 .. k -> ListMessages] : k \in 0 .. n}

\* the lists given to categorize_errors and what it returns for each of
\* them, computed once
ErrorLists == MessageLists(MaxErrors)
CategorizedLists ==
    {[compilation_errors |-> msgs, returned |-> categorize_errors(msgs)] :
        msgs \in ErrorLists}

----------------------------------------------------------------------------
(* The incremental fixer: incremental_fixer.py.  Ratios are in thousandths. *)

\* calculate_change_impact, lines 179-200.  matcher.ratio() is twice the
\* matched lines over the lines of both texts; the thousandths of similarity
\* are rounded down and those of change_ratio up, which keeps
\* similarity < 0.95 and change_ratio > 0.10 exact.
calculate_change_impact(original_code, modified_code) ==
    LET original_lines == split_lines(original_code, <<>>)
        modified_lines == split_lines(modified_code, <<>>)
        ops == get_opcodes(original_lines, modified_lines)
        matches == SumSeq([k \in 1 .. Len(ops) |->
                            IF ops[k].tag = "equal" THEN ops[k].i2 - ops[k].i1 ELSE 0])
        length == Len(original_lines) + Len(modified_lines)
        changes == Cardinality({k \in 1 .. Len(ops) : ops[k].tag # "equal"})
    IN  [similarity |-> (2000 * matches) \div length,
         total_changes |-> changes,
         change_ratio |-> (1000 * changes + Len(original_lines) - 1)
                            \div Len(original_lines),
         lines_changed |-> Len(modified_lines) - Len(original_lines)]

\* should_rollback's thresholds: 0.10 of the lines changed, 0.95 similar
MaxChangeRatio == 100
MinSimilarity == 950

\* a should_rollback that already rolls back at the threshold
should_rollback_at_threshold(impact, error_improvement) ==
    IF impact.change_ratio >= MaxChangeRatio THEN TRUE
    ELSE IF impact.similarity < MinSimilarity /\ error_improvement <= 0 THEN TRUE
    ELSE FALSE

\* should_rollback, lines 202-216
should_rollback(impact, error_improvement) ==
    IF impact.change_ratio > MaxChangeRatio THEN TRUE
    ELSE IF impact.similarity < MinSimilarity /\ error_improvement <= 0 THEN TRUE
    ELSE FALSE

\* the dataclass CodeChange, lines 12-19, of a 'fix' change; confidences in
\* hundredths
CodeChange(line_number, old_content, new_content, confidence) ==
    [line_number |-> line_number, old_content |-> old_content,
     new_content |-> new_content, change_type |-> "fix", confidence |-> confidence]

NoChange == [none |-> TRUE]
Some(change) == [none |-> FALSE, change |-> change]

DigitValue(d) ==
    CASE d = "0" -> 0 [] d = "1" -> 1 [] d = "2" -> 2 [] d = "3" -> 3 [] d = "4" -> 4
      [] d = "5" -> 5 [] d = "6" -> 6 [] d = "7" -> 7 [] d = "8" -> 8 [] d = "9" -> 9

\* int(text) of a text of digits
RECURSIVE int(_)
int(digits) ==
    IF digits = <<>> THEN 0
    ELSE 10 * int(SubSeq(digits, 1, Len(digits) - 1)) + DigitValue(Last(digits))

\* _extract_line_number, lines 77-83: the 0-based index int(group(1)) - 1, or
\* None
extract_line_number(error_message) ==
    LET at == search_location(error_message, 1) IN
    IF at # 0
    THEN [none |-> FALSE, value |-> int(line_group(error_message, at)) - 1]
    ELSE [none |-> TRUE]

\* position in 1 .. Len(list) that list[i] of Python names: a negative i counts
\* from the end
PyIndex(list, i) == IF i >= 0 THEN i + 1 ELSE Len(list) + i + 1

\* MQL5ErrorTemplates.MARKETINFO_FIXES, in the order of the dict
MARKETINFO_FIXES == <<
    [old |-> "MarketInfo(_Symbol, MODE_SPREAD)",
     new |-> "SymbolInfoInteger(_Symbol, SYMBOL_SPREAD)"],
    [old |-> "MarketInfo(_Symbol, MODE_ASK)",
     new |-> "SymbolInfoDouble(_Symbol, SYMBOL_ASK)"],
    [old |-> "MarketInfo(_Symbol, MODE_BID)",
     new |-> "SymbolInfoDouble(_Symbol, SYMBOL_BID)"],
    [old |-> "MarketInfo(_Symbol, MODE_POINT)",
     new |-> "SymbolInfoDouble(_Symbol, SYMBOL_POINT)"],
    [old |-> "MarketInfo(_Symbol, MODE_TICKVALUE)",
     new |-> "SymbolInfoDouble(_Symbol, SYMBOL_TRADE_TICK_VALUE)"],
    [old |-> "MarketInfo(_Symbol, MODE_TICKSIZE)",
     new |-> "SymbolInfoDouble(_Symbol, SYMBOL_TRADE_TICK_SIZE)"],
    [old |-> "MarketInfo(_Symbol, MODE_LOTSIZE)",
     new |-> "SymbolInfoDouble(_Symbol, SYMBOL_TRADE_CONTRACT_SIZE)"],
    [old |-> "MarketInfo(_Symbol, MODE_MINLOT)",
     new |-> "SymbolInfoDouble(_Symbol, SYMBOL_VOLUME_MIN)"],
    [old |-> "MarketInfo(_Symbol, MODE_MAXLOT)",
     new |-> "SymbolInfoDouble(_Symbol, SYMBOL_VOLUME_MAX)"],
    [old |-> "MarketInfo(_Symbol, MODE_LOTSTEP)",
     new |-> "SymbolInfoDouble(_Symbol, SYMBOL_VOLUME_STEP)"] >>

\* MQL5ErrorTemplates.ACCOUNT_FIXES, in the order of the dict
ACCOUNT_FIXES == <<
    [old |-> "AccountBalance()", new |-> "AccountInfoDouble(ACCOUNT_BALANCE)"],
    [old |-> "AccountEquity()", new |-> "AccountInfoDouble(ACCOUNT_EQUITY)"],
    [old |-> "AccountMargin()", new |-> "AccountInfoDouble(ACCOUNT_MARGIN)"],
    [old |-> "AccountFreeMargin()", new |-> "AccountInfoDouble(ACCOUNT_MARGIN_FREE)"],
    [old |-> "AccountProfit()", new |-> "AccountInfoDouble(ACCOUNT_PROFIT)"],
    [old |-> "Ask", new |-> "SymbolInfoDouble(_Symbol, SYMBOL_ASK)"],
    [old |-> "Bid", new |-> "SymbolInfoDouble(_Symbol, SYMBOL_BID)"],
    [old |-> "Point", new |-> "SymbolInfoDouble(_Symbol, SYMBOL_POINT)"],
    [old |-> "Digits", new |-> "SymbolInfoInteger(_Symbol, SYMBOL_DIGITS)"] >>

\* the words of the two tables that are a call with two arguments, and those
\* that are a call with one argument or none
TwoArgumentCalls ==
    {MARKETINFO_FIXES[k].old : k \in 1 .. Len(MARKETINFO_FIXES)}
        \cup {MARKETINFO_FIXES[k].new : k \in 1 .. Len(MARKETINFO_FIXES)}
        \cup {ACCOUNT_FIXES[k].new : k \in 6 .. Len(ACCOUNT_FIXES)}
ShortCalls ==
    {ACCOUNT_FIXES[k].old : k \in 1 .. 5} \cup {ACCOUNT_FIXES[k].new : k \in 1 .. 5}

\* number of times the character ch occurs in one symbol of a code line
CharsIn(sym, ch) ==
    IF sym = ch THEN 1
    ELSE IF sym \in TwoArgumentCalls THEN (IF ch \in {"(", ",", ")"} THEN 1 ELSE 0)
    ELSE IF sym \in ShortCalls THEN (IF ch \in {"(", ")"} THEN 1 ELSE 0)
    ELSE IF sym = "iMA(" THEN (IF ch = "(" THEN 1 ELSE 0)
    ELSE IF sym = "iMA(_Symbol, _Period, "
    THEN (IF ch = "(" THEN 1 ELSE IF ch = "," THEN 2 ELSE 0)
    ELSE 0

\* line.count(ch)
count(line, ch) == SumSeq([i \in 1 .. Len(line) |-> CharsIn(line[i], ch)])

\* line.replace(old, new)
replace(line, old, new) ==
    Flatten([i \in 1 .. Len(line) |->
        IF line[i] = old THEN <<new>>
        ELSE IF line[i] = "AskPrice" /\ old = "Ask" THEN <<new, "Price">>
        ELSE <<line[i]>>])

\* _fix_missing_semicolon, lines 85-94
fix_missing_semicolon(line_num, original_line) ==
    Some(CodeChange(line_num, original_line, RStrip(original_line) \o <<";">>, 95))

\* _fix_missing_parenthesis, lines 96-108
fix_missing_parenthesis(line_num, original_line) ==
    IF count(original_line, "(") > count(original_line, ")")
    THEN Some(CodeChange(line_num, original_line, RStrip(original_line) \o <<")">>, 90))
    ELSE NoChange

\* the loop of _fix_deprecated_function and of _fix_deprecated_variable: the
\* first key of the table that the line holds is replaced, and no other
fix_from_table(table, line_num, original_line, confidence) ==
    IF \E k \in 1 .. Len(table) : Contains(original_line, table[k].old)
    THEN LET k == CHOOSE k \in 1 .. Len(table) :
                    /\ Contains(original_line, table[k].old)
                    /\ \A j \in 1 .. k - 1 : ~Contains(original_line, table[j].old)
         IN  Some(CodeChange(line_num, original_line,
                             replace(original_line, table[k].old, table[k].new),
                             confidence))
    ELSE NoChange

\* _fix_deprecated_function, lines 110-134
fix_deprecated_function(line_num, original_line) ==
    fix_from_table(MARKETINFO_FIXES, line_num, original_line, 85)

\* _fix_deprecated_variable, lines 136-160
fix_deprecated_variable(line_num, original_line) ==
    fix_from_table(ACCOUNT_FIXES, line_num, original_line, 80)

\* _fix_wrong_parameters, lines 162-177
fix_wrong_parameters(line_num, original_line) ==
    IF Contains(original_line, "iMA(") /\ count(original_line, ",") < 5
    THEN Some(CodeChange(line_num, original_line,
                         replace(original_line, "iMA(", "iMA(_Symbol, _Period, "), 70))
    ELSE NoChange

\* _fix_single_error, lines 53-75; its templates argument is not used
fix_single_error(lines, error) ==
    LET line_num == extract_line_number(error.original_message) IN
    IF line_num.none THEN NoChange
    ELSE IF line_num.value >= Len(lines) THEN NoChange
    ELSE LET n == line_num.value
             original_line == lines[PyIndex(lines, n)]
         IN  CASE error.error_type = "missing_semicolon" ->
                    fix_missing_semicolon(n, original_line)
               [] error.error_type = "missing_parenthesis" ->
                    fix_missing_parenthesis(n, original_line)
               [] error.error_type = "deprecated_function" ->
                    fix_deprecated_function(n, original_line)
               [] error.error_type = "deprecated_variable" ->
                    fix_deprecated_variable(n, original_line)
               [] error.error_type = "wrong_parameters" ->
                    fix_wrong_parameters(n, original_line)
               [] OTHER -> NoChange

\* priority_errors[:4]
top_four_errors(priority_errors) ==
    SubSeq(priority_errors, 1, IF Len(priority_errors) < 4 THEN Len(priority_errors) ELSE 4)

\* priority_errors[:3], line 35
top_errors(priority_errors) ==
    SubSeq(priority_errors, 1, IF Len(priority_errors) < 3 THEN Len(priority_errors) ELSE 3)

\* changes applied as additions: lines.insert(change.line_number,
\* change.new_content) for each of the changes in turn
RECURSIVE apply_changes_as_additions(_, _)
apply_changes_as_additions(lines, changes) ==
    IF changes = <<>> THEN lines
    ELSE LET at == PyIndex(lines, Head(changes).line_number) IN
         apply_changes_as_additions(
            SubSeq(lines, 1, at - 1) \o <<Head(changes).new_content>>
                \o SubSeq(lines, at, Len(lines)),
            Tail(changes))

\* lines[change.line_number] = change.new_content for each of the changes in
\* turn, lines 44-45
RECURSIVE apply_changes(_, _)
apply_changes(lines, changes) ==
    IF changes = <<>> THEN lines
    ELSE apply_changes([lines EXCEPT ![PyIndex(lines, Head(changes).line_number)] =
                            Head(changes).new_content],
                       Tail(changes))

\* a loop that works every fix out on the lines as they came in and applies
\* the changes when it is done
RECURSIVE fix_loop_on_original(_, _, _, _)
fix_loop_on_original(lines, changes, errors, cap) ==
    IF errors = <<>> \/ Len(changes) >= cap
    THEN [lines |-> apply_changes(lines, changes), changes |-> changes]
    ELSE LET fix == fix_single_error(lines, Head(errors)) IN
         IF fix.none THEN fix_loop_on_original(lines, changes, Tail(errors), cap)
         ELSE fix_loop_on_original(lines, Append(changes, fix.change), Tail(errors), cap)

\* the loop of apply_minimal_fixes, lines 35-46: each change is applied to
\* lines before the next error is looked at
RECURSIVE fix_loop(_, _, _, _)
fix_loop(lines, changes, errors, cap) ==
    IF errors = <<>> \/ Len(changes) >= cap
    THEN [lines |-> lines, changes |-> changes]
    ELSE LET fix == fix_single_error(lines, Head(errors)) IN
         IF fix.none THEN fix_loop(lines, changes, Tail(errors), cap)
         ELSE fix_loop(apply_changes(lines, <<fix.change>>),
                       Append(changes, fix.change), Tail(errors), cap)

\* apply_minimal_fixes, lines 28-51, of a fixer with this cap
apply_minimal_fixes(original_code, priority_errors, cap) ==
    LET done == fix_loop(split_lines(original_code, <<>>), <<>>,
                         top_errors(priority_errors), cap)
    IN  [modified_code |-> join("\n", done.lines), changes |-> done.changes]

Caps == 0 .. MaxCap

\* sources given to apply_minimal_fixes
LineAsk == <<"p", "=", "Ask">>
LineIma == <<"iMA(", "a", ",", "b", ")">>
LineMarketAsk == <<"y", "=", "MarketInfo(_Symbol, MODE_ASK)", ";">>
LineOpen == <<"g", "(", " ">>
TenLines == <<LineAssign, LineCall, LineAsk, LineComment, LineComment,
              LineComment, LineComment, LineComment, LineComment, LineComment>>
TenAlike == <<LineAssign>> \o [k \in 1 .. 9 |-> LineAssignFixed]
FixCodes ==
    {Code(<<LineAssign, LineCall, LineAsk>>), Code(<<LineIma, LineMarketAsk>>),
     Code(<<LineOpen>>), Code(TenLines), Code(TenAlike)}

\* categorized errors given to apply_minimal_fixes: a type and a message that
\* names a line, line 0, a line past the end of every source, or no line
FixError(type, message) ==
    CategorizedError(message, type, "medium", "", <<>>, 3)
MsgAtLine(line) == Located(<<"error">>, line, <<"5">>)
FixErrors ==
    {FixError("missing_semicolon", MsgAtLine(<<"1">>)),
     FixError("missing_parenthesis", MsgAtLine(<<"2">>)),
     FixError("deprecated_variable", MsgAtLine(<<"3">>)),
     FixError("wrong_parameters", MsgAtLine(<<"1">>)),
     FixError("deprecated_function", MsgAtLine(<<"2">>)),
     FixError("missing_semicolon", MsgAtLine(<<"0">>)),
     FixError("missing_semicolon", MsgAtLine(<<"1", "0">>)),
     FixError("missing_semicolon", <<"error">>),
     FixError("unknown", MsgAtLine(<<"1">>))}
FixErrorLists == UNION {[1 .. k -> FixErrors] : k \in 0 .. MaxFixErrors}

\* texts compared by calculate_change_impact: a source and what one fix or
\* none makes of it
FixedOnce(code) ==
    {apply_minimal_fixes(code, <<error>>, 1).modified_code : error \in FixErrors}
ImpactPairs ==
    {[original_code |-> code, modified_code |-> modified] :
        code \in FixCodes, modified \in FixCodes} \cup
    UNION {{[original_code |-> code, modified_code |-> modified] :
                modified \in FixedOnce(code)} : code \in FixCodes}

\* impacts and error improvements given to should_rollback
ChangeRatios == {0, 50, 100, 101, 120, 1000}
Similarities == {0, 949, 950, 990, 1000}
Improvements == {-1, 0, 1, 5}

----------------------------------------------------------------------------
(* State machine *)

Store == [versions |-> versions, current_version |-> current_version,
          file |-> session_file, clock |-> clock]

\* the store fields take the outcome r of add_version
\* add_version's effects taken over only when the save went through, as if the
\* session were saved before the attempt is appended
TakeSavedAddVersion(r) ==
    /\ versions' = IF r.raised THEN versions ELSE r.versions
    /\ current_version' = IF r.raised THEN current_version ELSE r.current_version
    /\ session_file' = r.file
    /\ clock' = r.clock
    /\ ret' = [op |-> "add_version", raised |-> r.raised, write |-> r.write,
               value |-> r.value]

TakeAddVersion(r) ==
    /\ versions' = r.versions
    /\ current_version' = r.current_version
    /\ session_file' = r.file
    /\ clock' = r.clock
    /\ ret' = [op |-> "add_version", raised |-> r.raised, write |-> r.write,
               value |-> r.value]

\* no orchestrator loop has started
LoopIdle ==
    /\ pc = "idle"
    /\ iteration = 0
    /\ max_iterations = 0
    /\ current_code = 0
    /\ validation = NoValidation
    /\ errors_history = <<>>

\* the store constructed over the file
StoreConstructed(file) ==
    /\ session_file = file
    /\ versions = load_session(file).versions
    /\ current_version = load_session(file).current_version
    /\ ret = [op |-> "construct", raised |-> load_session(file).raised,
              write |-> "none", value |-> NoId]
    /\ clock = 0

\* no message has been given to the normalizer
NormIdle == m1 = <<>> /\ m2 = <<>> /\ rel = "varied"

\* the learner constructed over the pattern file in a process with this salt
LearnerConstructed(file, seed) ==
    /\ pattern_file = file
    /\ patterns = load_patterns(file)
    /\ hash_seed = seed
    /\ learn_clock = 0
    /\ lret = [op |-> "construct", input |-> NoInput, raised |-> FALSE,
              write |-> "none", written |-> FALSE]

\* the categorizer and the fixer as SmartLLMLoop.__init__ constructs them
\* (smart_llm_loop.py line 297), not yet called
ToolsIdle ==
    /\ max_changes_per_iteration = 5
    /\ fixer_calls = 0
    /\ call = [op |-> "none"]
    /\ result = [op |-> "none"]

Init ==
    /\ \E file \in InitialFiles : StoreConstructed(file)
    /\ LoopIdle
    /\ NormIdle
    /\ LearnerConstructed(MissingFile, 0)
    /\ ToolsIdle

\* CodeEvolution(session_id): a new store object over the session's file
Construct ==
    /\ pc \in {"idle", "finished", "failed"}
    /\ versions' = load_session(session_file).versions
    /\ current_version' = load_session(session_file).current_version
    /\ ret' = [op |-> "construct", raised |-> load_session(session_file).raised,
               write |-> "none", value |-> NoId]
    /\ UNCHANGED <<session_file, clock>>
    /\ UNCHANGED <<loopVars, normVars, learnVars, toolVars>>

\* add_version called on the store directly (template_code_fixing.py and the
\* other scripts that open a session by its id)
AddVersion ==
    /\ pc \in {"idle", "finished", "failed"}
    /\ clock < MaxCalls
    /\ \E code \in Codes, it \in Iterations, payload \in Payloads, wr \in WriteOutcomes :
            TakeAddVersion(add_version(Store, CallArgs(code, it, payload), wr))
    /\ UNCHANGED <<loopVars, normVars, learnVars, toolVars>>

\* SmartLLMLoop() and the start of run(): the session id is a fresh uuid, so
\* the store is empty and has no file
RunStart ==
    /\ pc = "idle"
    /\ ret.op = "construct"
    /\ session_file = MissingFile
    /\ max_iterations' \in 1 .. MaxRunIterations
    /\ iteration' = 0
    /\ errors_history' = <<>>
    /\ pc' = "generate"
    /\ UNCHANGED <<current_code, validation>>
    /\ UNCHANGED <<storeVars, normVars, learnVars, toolVars>>

\* generate_code: the coder's text becomes an attempt of this iteration
GenerateCode ==
    /\ pc = "generate"
    /\ \E code \in Codes, wr \in WriteOutcomes :
        LET r == add_version(Store,
                    [code |-> code, iteration |-> iteration,
                     improvement_areas |-> <<"initial_development">>], wr)
        IN  /\ TakeAddVersion(r)
            /\ current_code' = code
            /\ pc' = IF r.raised THEN "failed" ELSE "validate"
    /\ UNCHANGED <<iteration, max_iterations, validation, errors_history, normVars, learnVars, toolVars>>

\* validate_and_review_code: the results are attached to the last attempt and
\* the session is saved
ValidateAndReview ==
    /\ pc = "validate"
    /\ \E val \in Validations, wr \in WriteOutcomes :
        LET vs == [versions EXCEPT ![Len(versions)] =
                        [@ EXCEPT !.quality_score = val.score,
                                  !.compilation_success = val.success,
                                  !.review_feedback = val.review]]
            saved == save_session(vs, current_version, session_file, wr)
        IN  /\ versions' = vs
            /\ session_file' = saved.file
            /\ ret' = [op |-> "save_session", raised |-> saved.raised, write |-> wr,
                       value |-> NoId]
            /\ validation' = val
            /\ pc' = IF saved.raised THEN "failed" ELSE "record"
    /\ UNCHANGED <<current_version, clock, iteration, max_iterations, current_code,
                   errors_history, normVars, learnVars, toolVars>>

\* run, lines 567-625: the validated text is added once more with its results,
\* then the loop breaks, goes on to improve_code, or ends
RecordVersion ==
    /\ pc = "record"
    /\ \E wr \in WriteOutcomes :
        LET r == add_version(Store,
                    [code |-> current_code, iteration |-> iteration,
                     quality_score |-> validation.score,
                     compilation_success |-> validation.success,
                     review_feedback |-> validation.review,
                     improvement_areas |-> <<"iteration_development">>,
                     compilation_errors |-> validation.compilation_errors,
                     fixed_errors |-> FixedErrors(errors_history,
                                                  validation.compilation_errors)], wr)
            done == is_satisfied(validation) /\ validation.score >= TargetQuality
        IN  /\ TakeAddVersion(r)
            /\ errors_history' = IF r.raised \/ done THEN errors_history
                                 ELSE errors_history \o validation.failed
            /\ pc' = IF r.raised THEN "failed"
                     ELSE IF done THEN "finished"
                     ELSE IF iteration < max_iterations - 1 THEN "improve"
                     ELSE "finished"
    /\ UNCHANGED <<iteration, max_iterations, current_code, validation, normVars, learnVars, toolVars>>

\* improve_code: the improved text is added under the same iteration number
ImproveCode ==
    /\ pc = "improve"
    /\ \E code \in Codes, wr \in WriteOutcomes :
        LET r == add_version(Store,
                    [code |-> code, iteration |-> iteration,
                     improvement_areas |-> <<"review_feedback">>], wr)
        IN  /\ TakeAddVersion(r)
            /\ current_code' = code
            /\ pc' = IF r.raised THEN "failed" ELSE "generate"
            /\ iteration' = IF r.raised THEN iteration ELSE iteration + 1
    /\ UNCHANGED <<max_iterations, validation, errors_history, normVars, learnVars, toolVars>>

Next ==
    \/ Construct
    \/ AddVersion
    \/ RunStart
    \/ GenerateCode
    \/ ValidateAndReview
    \/ RecordVersion
    \/ ImproveCode

Spec == Init /\ [][Next]_vars

----------------------------------------------------------------------------
(* The normalizer on its own: pairs of raw messages *)

\* fragments of compiler messages: a location, a line reference, a quoted
\* identifier, two error texts, a blank, a stray quote, a stray digit
Pieces ==
    { <<"(", "1", ",", "2", ")">>,
      <<"line", " ", "4">>,
      <<"'", "x", "'">>,
      <<"undeclared identifier">>,
      <<"semicolon expected">>,
      <<" ">>,
      <<"'">>,
      <<"7">> }

\* the texts made of exactly n pieces
RECURSIVE TextsOf(_)
TextsOf(n) ==
    IF n = 0 THEN {<<>>}
    ELSE {p \o t : p \in Pieces, t \in TextsOf(n - 1)}

Messages == UNION {TextsOf(n) : n \in 1 .. MaxPieces}

\* what a location token, a line token and the inside of a quoted token may be
\* replaced by
LocationTokens == { <<"(", "1", ",", "2", ")">>, <<"(", "1", "2", ",", "4", ")">>,
                    <<"(", "7", ",", "1", "0", ")">> }
LineTokens == { <<"line", " ", "4">>, <<"line", " ", "1", "2">> }
QuotedTexts == { <<>>, <<"x">>, <<"OrderSend">>, <<"x", " ", "y">>,
                 <<"line", " ", "4">>, <<"(", "1", ",", "2", ")">>,
                 <<"semicolon expected">> }

\* number of single quotes among the first n symbols of s
QuotesBefore(s, n) == Cardinality({i \in 1 .. n : s[i] = "'"})

\* the symbols of s that lie outside every quoted token, quotes being paired
\* from the left
OutsideQuotes(s) ==
    {s[i] : i \in {k \in 1 .. Len(s) :
                    /\ s[k] # "'"
                    /\ \/ QuotesBefore(s, k) % 2 = 0
                       \/ QuotesBefore(s, Len(s)) = QuotesBefore(s, k)}}

\* an "undeclared identifier" message, a "semicolon expected" message
IsUndeclared(s) ==
    /\ "undeclared identifier" \in OutsideQuotes(s)
    /\ "semicolon expected" \notin OutsideQuotes(s)

IsSemicolon(s) ==
    /\ "semicolon expected" \in OutsideQuotes(s)
    /\ "undeclared identifier" \notin OutsideQuotes(s)

\* s with the symbols i .. j replaced by t
Splice(s, i, j, t) == SubSeq(s, 1, i - 1) \o t \o SubSeq(s, j + 1, Len(s))

InitNorm ==
    /\ m1 \in Messages
    /\ m2 = m1
    /\ rel = "varied"
    /\ StoreConstructed(MissingFile)
    /\ LoopIdle
    /\ LearnerConstructed(MissingFile, 0)
    /\ ToolsIdle

\* m2 gets other numbers in one of its (line,col) tokens
VaryLocation ==
    /\ rel = "varied"
    /\ \E i \in 1 .. Len(m2), j \in 1 .. Len(m2), t \in LocationTokens :
        /\ i <= j
        /\ SubSeq(m2, i, j) \in LocationTokens
        /\ m2' = Splice(m2, i, j, t)
    /\ UNCHANGED <<m1, rel, storeVars, loopVars, learnVars, toolVars>>

\* m2 gets another number in one of its `line N` tokens
VaryLine ==
    /\ rel = "varied"
    /\ \E i \in 1 .. Len(m2), j \in 1 .. Len(m2), t \in LineTokens :
        /\ i <= j
        /\ SubSeq(m2, i, j) \in LineTokens
        /\ m2' = Splice(m2, i, j, t)
    /\ UNCHANGED <<m1, rel, storeVars, loopVars, learnVars, toolVars>>

\* m2 gets another text inside one of its single-quoted tokens
VaryQuoted ==
    /\ rel = "varied"
    /\ \E i \in 1 .. Len(m2), j \in 1 .. Len(m2), t \in QuotedTexts :
        /\ i < j
        /\ m2[i] = "'"
        /\ m2[j] = "'"
        /\ QuotesBefore(m2, i) % 2 = 1
        /\ QuotesBefore(m2, j) = QuotesBefore(m2, i) + 1
        /\ m2' = Splice(m2, i + 1, j - 1, t)
    /\ UNCHANGED <<m1, rel, storeVars, loopVars, learnVars, toolVars>>

\* an "undeclared identifier" message is set against a "semicolon expected" one
OtherShape ==
    /\ IsUndeclared(m1)
    /\ \E m \in TextsOf(1) \cup TextsOf(2) :
        /\ IsSemicolon(m)
        /\ m2' = m
    /\ rel' = "other"
    /\ UNCHANGED <<m1, storeVars, loopVars, learnVars, toolVars>>

NextNorm ==
    \/ VaryLocation
    \/ VaryLine
    \/ VaryQuoted
    \/ OtherShape

SpecNorm == InitNorm /\ [][NextNorm]_vars

----------------------------------------------------------------------------
(* The learner on its own *)

InitLearn ==
    /\ \E file \in InitialPatternFiles : LearnerConstructed(file, 0)
    /\ StoreConstructed(MissingFile)
    /\ LoopIdle
    /\ NormIdle
    /\ ToolsIdle

\* SuccessPatternLearner(): a new learner over the pattern file, in this
\* process or in a later one
LearnerConstruct ==
    /\ \E seed \in HashSeeds : hash_seed' = seed
    /\ patterns' = load_patterns(pattern_file)
    /\ lret' = [op |-> "construct", input |-> NoInput, raised |-> FALSE,
              write |-> "none", written |-> FALSE]
    /\ UNCHANGED <<pattern_file, learn_clock, storeVars, loopVars, normVars, toolVars>>

\* learn_from_success(original_code, fixed_code, compilation_success,
\* error_messages): nothing on a failed compilation; otherwise the loop over
\* the changes and then save_patterns, whose write the file system may fail
LearnFromSuccess ==
    /\ learn_clock < MaxLearnReadings
    /\ \E input \in LearnInputs :
        IF ~compilation_succeeded(input)
        THEN /\ lret' = [op |-> "learn", input |-> input, raised |-> FALSE,
                       write |-> "none", written |-> FALSE]
             /\ UNCHANGED <<patterns, pattern_file, learn_clock>>
        ELSE LET reg == learned(patterns, learn_clock, hash_seed, input) IN
             \E wr \in WriteOutcomes :
                LET out == save_patterns(reg.patterns, pattern_file, wr) IN
                /\ patterns' = reg.patterns
                /\ pattern_file' = out.file
                /\ learn_clock' = reg.clock
                /\ lret' = [op |-> "learn", input |-> input, raised |-> FALSE,
                           write |-> out.write, written |-> out.written]
    /\ UNCHANGED <<hash_seed, storeVars, loopVars, normVars, toolVars>>

NextLearn ==
    \/ LearnerConstruct
    \/ LearnFromSuccess

SpecLearn == InitLearn /\ [][NextLearn]_vars

----------------------------------------------------------------------------
(* The error categorizer on its own *)

InitCat ==
    /\ StoreConstructed(MissingFile)
    /\ LoopIdle
    /\ NormIdle
    /\ LearnerConstructed(MissingFile, 0)
    /\ ToolsIdle

\* ErrorCategorizer._categorize_single_error(error_msg)
Categorize ==
    /\ \E msg \in CatMessages :
        /\ call' = [op |-> "categorize", error_msg |-> msg]
        /\ result' = categorize_single_error(msg)
    /\ UNCHANGED <<max_changes_per_iteration, fixer_calls, storeVars, loopVars, normVars, learnVars>>

\* ErrorCategorizer.categorize_errors(compilation_errors)
CategorizeAll ==
    /\ \E done \in CategorizedLists :
        /\ call' = [op |-> "categorize_errors",
                    compilation_errors |-> done.compilation_errors]
        /\ result' = done.returned
    /\ UNCHANGED <<max_changes_per_iteration, fixer_calls, storeVars, loopVars, normVars, learnVars>>

NextCat ==
    \/ Categorize
    \/ CategorizeAll

SpecCat == InitCat /\ [][NextCat]_vars

----------------------------------------------------------------------------
(* The incremental fixer on its own *)

InitFix ==
    /\ StoreConstructed(MissingFile)
    /\ LoopIdle
    /\ NormIdle
    /\ LearnerConstructed(MissingFile, 0)
    /\ ToolsIdle

\* IncrementalFixer(max_changes_per_iteration = cap), lines 23-25
FixerConstruct ==
    /\ \E cap \in Caps :
        /\ max_changes_per_iteration' = cap
        /\ fixer_calls' = 0
        /\ call' = [op |-> "construct", cap |-> cap]
        /\ result' = [op |-> "construct", raised |-> FALSE]
    /\ UNCHANGED <<storeVars, loopVars, normVars, learnVars>>

\* fixer.apply_minimal_fixes(original_code, priority_errors, templates)
ApplyMinimalFixes ==
    /\ fixer_calls < MaxFixerCalls
    /\ \E code \in FixCodes, errors \in FixErrorLists :
        /\ call' = [op |-> "apply_minimal_fixes", original_code |-> code,
                    priority_errors |-> errors]
        /\ result' = [op |-> "apply_minimal_fixes", raised |-> FALSE,
                      value |-> apply_minimal_fixes(code, errors,
                                                    max_changes_per_iteration)]
    /\ fixer_calls' = fixer_calls + 1
    /\ UNCHANGED <<max_changes_per_iteration, storeVars, loopVars, normVars, learnVars>>

\* fixer.should_rollback(impact, error_improvement)
ShouldRollback ==
    /\ fixer_calls < MaxFixerCalls
    /\ \E cr \in ChangeRatios, sim \in Similarities, imp \in Improvements :
        LET impact == [change_ratio |-> cr, similarity |-> sim] IN
        /\ call' = [op |-> "should_rollback", impact |-> impact,
                    error_improvement |-> imp]
        /\ result' = [op |-> "should_rollback", raised |-> FALSE,
                      value |-> should_rollback(impact, imp)]
    /\ fixer_calls' = fixer_calls + 1
    /\ UNCHANGED <<max_changes_per_iteration, storeVars, loopVars, normVars, learnVars>>

\* fixer.calculate_change_impact(original_code, modified_code)
CalculateChangeImpact ==
    /\ fixer_calls < MaxFixerCalls
    /\ \E pair \in ImpactPairs :
        /\ call' = [op |-> "calculate_change_impact",
                    original_code |-> pair.original_code,
                    modified_code |-> pair.modified_code]
        /\ result' = [op |-> "calculate_change_impact", raised |-> FALSE,
                      value |-> calculate_change_impact(pair.original_code,
                                                        pair.modified_code)]
    /\ fixer_calls' = fixer_calls + 1
    /\ UNCHANGED <<max_changes_per_iteration, storeVars, loopVars, normVars, learnVars>>

NextFix ==
    \/ FixerConstruct
    \/ ApplyMinimalFixes
    \/ CalculateChangeImpact
    \/ ShouldRollback

SpecFix == InitFix /\ [][NextFix]_vars

----------------------------------------------------------------------------
(* Claims about the version store *)

\* a step of add_version: the only operation that reads the clock
AddVersionStep == clock' # clock

\* C1: every add_version call that returns leaves the attempt list as it was
\* with exactly one attempt appended at the end; the current version is that
\* attempt and its id is the value returned.
C1_AddVersionAppendsOne ==
    [][(AddVersionStep /\ ~ret'.raised) =>
            /\ Len(versions') = Len(versions) + 1
            /\ SubSeq(versions', 1, Len(versions)) = versions
            /\ get_current_version(versions', current_version') = Last(versions')
            /\ Last(versions').version_id = ret'.value]_vars

C1_Witness ==
    /\ ret.op = "add_version"
    /\ ~ret.raised
    /\ Len(versions) >= 2
    /\ ret.value = Last(versions).version_id

\* the orchestrator loop is between its first and its last add_version call
InRun == pc \in {"generate", "validate", "record", "improve"}

IterationsStrictlyIncreasing(vs) ==
    \A i, j \in 1 .. Len(vs) : i < j => vs[i].iteration < vs[j].iteration

\* C2: in every state of a session the orchestrator loop is building, the
\* iteration values of the attempt list are strictly increasing in list order.
C2_SequenceStrictlyIncreasing ==
    InRun => IterationsStrictlyIncreasing(versions)

IdsUnique(vs) ==
    \A i, j \in 1 .. Len(vs) : i # j => vs[i].version_id # vs[j].version_id

\* C3: in every state of a session the orchestrator loop is building, no two
\* attempts share an id, and after add_version returned an id, looking that id
\* up yields the attempt the call created.
C3_IdsUnique ==
    InRun =>
        /\ IdsUnique(versions)
        /\ (ret.op = "add_version" /\ ~ret.raised) =>
                FirstWithId(versions, ret.value, 1) = Len(versions)

\* C4: saving a session and loading the document into a fresh store gives back
\* the same attempts, field by field and in order, and the same current index.
C4_SaveLoadRoundTrip ==
    LET saved == save_session(versions, current_version, session_file, "ok")
        loaded == load_session(saved.file)
    IN  /\ ~saved.raised
        /\ ~loaded.raised
        /\ Len(loaded.versions) = Len(versions)
        /\ \A i \in 1 .. Len(versions) :
                \A k \in VersionFields : loaded.versions[i][k] = versions[i][k]
        /\ loaded.current_version = current_version

C4_Witness ==
    /\ ret.op = "add_version"
    /\ ~ret.raised
    /\ Len(versions) >= 2
    /\ \E i \in 1 .. Len(versions) : versions[i].timestamp.micro # 0
    /\ \E i \in 1 .. Len(versions) : versions[i].timestamp.micro = 0
    /\ \E i \in 1 .. Len(versions) : versions[i].compilation_errors # <<>>
    /\ load_session(session_file).versions = versions

C6_WriteFailureSurfaces ==
    (ret.op = "add_version" /\ ret.write # "ok") =>
        (ret.raised /\ ret.value = NoId)

C6_Witness ==
    /\ ret.op = "add_version"
    /\ ret.write = "write_fails"
    /\ ret.raised
    /\ versions # <<>>

\* number of error records, over all attempts, whose normalized message is key
OccurrencesOf(vs, key) ==
    LET msgs == AllErrorMessages(vs) IN
    Cardinality({i \in 1 .. Len(msgs) : normalize_error_message(msgs[i]) = key})

\* index of the first error record, scanning attempts and their errors in
\* order, whose normalized message is key
FirstSeen(vs, key) ==
    LET msgs == AllErrorMessages(vs) IN
    CHOOSE i \in 1 .. Len(msgs) :
        /\ normalize_error_message(msgs[i]) = key
        /\ \A j \in 1 .. (i - 1) : normalize_error_message(msgs[j]) # key

\* C7: the counts of get_recurring_errors sum to the number of error records of
\* all attempts, each count is the number of records with that signature, and
\* no entry has a larger count than the first.
C7_RecurringErrorCounts ==
    LET r == get_recurring_errors(versions) IN
    /\ SumSeq([i \in 1 .. Len(r) |-> r[i].count]) = Len(AllErrorMessages(versions))
    /\ \A i \in 1 .. Len(r) : r[i].count = OccurrencesOf(versions, r[i].key)
    /\ \A i, j \in 1 .. Len(r) : i # j => r[i].key # r[j].key
    /\ \A i \in 1 .. Len(r) : r[1].count >= r[i].count

C7_Witness ==
    LET r == get_recurring_errors(versions) IN
    /\ Len(versions) >= 2
    /\ Len(r) >= 2
    /\ r[1].count >= 2
    /\ Len(AllErrorMessages(versions)) >= 4

\* C8: get_recurring_errors lists the signatures by descending count, and
\* signatures of equal count in the order in which they were first seen.
C8_RecurringErrorOrder ==
    LET r == get_recurring_errors(versions) IN
    \A i, j \in 1 .. Len(r) :
        i < j =>
            /\ r[i].count >= r[j].count
            /\ r[i].count = r[j].count =>
                    FirstSeen(versions, r[i].key) < FirstSeen(versions, r[j].key)

C8_Witness ==
    LET r == get_recurring_errors(versions)
        msgs == AllErrorMessages(versions)
    IN  /\ Len(r) >= 3
        /\ r[1].count > r[2].count
        /\ r[2].count = r[3].count
        /\ normalize_error_message(msgs[1]) # r[1].key

\* C21: get_best_version returns None for a session without attempts and
\* otherwise an attempt of the session whose quality score is maximal; among
\* several attempts of maximal score it returns the one with the smallest
\* iteration.
C21_BestVersionEarliestOfMaximal ==
    LET best == get_best_version(versions) IN
    IF versions = <<>> THEN best = NoVersion
    ELSE /\ \E i \in 1 .. Len(versions) : versions[i] = best
         /\ \A i \in 1 .. Len(versions) :
                /\ versions[i].quality_score <= best.quality_score
                /\ versions[i].quality_score = best.quality_score
                        => best.iteration <= versions[i].iteration

\* C22: the direction is insufficient_data for fewer than 3 attempts; with 3
\* or more it is improving, degrading or stable as the last attempt's score is
\* greater than, smaller than or equal to the score of the third-from-last
\* attempt, whatever the attempt between them scored.
C22_DirectionFromLastAndThirdLast ==
    LET n == Len(versions)
        direction == calculate_evolution_direction(versions)
    IN  IF n < 3 THEN direction = "insufficient_data"
        ELSE LET last == versions[n].quality_score
                 third == versions[n - 2].quality_score
             IN  /\ last > third => direction = "improving"
                 /\ last < third => direction = "degrading"
                 /\ last = third => direction = "stable"

C22_Witness ==
    LET n == Len(versions) IN
    /\ n >= 3
    /\ versions[n - 2].quality_score < versions[n - 1].quality_score
    /\ versions[n - 1].quality_score = versions[n].quality_score
    /\ calculate_evolution_direction(versions) = "improving"

\* number of times a descriptor occurs among the fixed errors of all attempts
Frequency(vs, descriptor) ==
    Cardinality({i \in 1 .. Len(AllFixedErrors(vs)) : AllFixedErrors(vs)[i] = descriptor})

\* C23: the section of fixed errors lists the 3 most frequent descriptors of
\* the fixed errors of all attempts, at most 3 and each once, and there is no
\* such section when no attempt has a fixed error.
C23_FixedSectionMostFrequent ==
    LET section == fixed_section(versions)
        all == AllFixedErrors(versions)
        descriptors == {all[i] : i \in 1 .. Len(all)}
        listed == {section.entries[i] : i \in 1 .. Len(section.entries)}
    IN  /\ section.present <=> all # <<>>
        /\ Len(section.entries) <= 3
        /\ Cardinality(listed) = Len(section.entries)
        /\ listed \subseteq descriptors
        /\ Cardinality(listed) = Smaller(3, Cardinality(descriptors))
        /\ \A shown \in listed : \A other \in descriptors \ listed :
                Frequency(versions, shown) >= Frequency(versions, other)

----------------------------------------------------------------------------
(* Claims about the normalizer *)

\* C9: two messages that differ only in the numbers of (line,col) tokens, in
\* the number of `line N` tokens or in the text inside single-quoted tokens
\* have the same signature, and an "undeclared identifier" message never has
\* the signature of a "semicolon expected" message.
C9_NormalizeIgnoresLocationsAndNames ==
    /\ rel = "varied" => normalize_error_message(m1) = normalize_error_message(m2)
    /\ (rel = "other" /\ IsUndeclared(m1) /\ IsSemicolon(m2)) =>
            normalize_error_message(m1) # normalize_error_message(m2)

C9_Witness ==
    /\ rel = "varied"
    /\ m1 # m2
    /\ \E i \in 1 .. Len(m1) : MatchLocation(m1, i) # 0
    /\ \E i \in 1 .. Len(m1) : MatchQuoted(m1, i) # 0
    /\ SubLocations(m1, 1) # SubLocations(m2, 1)
    /\ SubLocations(m1, 1) # m1

----------------------------------------------------------------------------
(* Claims about the learner *)

\* C10: whatever successes the learner is given, starting from an empty
\* library, every pattern's success rate stays within [0, 1] and its
\* confidence within [0, 0.95].
C10_RateAndConfidenceBounded ==
    \A i \in 1 .. Len(patterns) :
        /\ 0 <= patterns[i].success_rate
        /\ patterns[i].success_rate <= 1000
        /\ FloatLE(Float(0, 0), patterns[i].confidence)
        /\ FloatLE(patterns[i].confidence, Float(95, 0))

C10_Witness ==
    /\ lret.op = "learn"
    /\ \E i \in 1 .. Len(patterns) :
        /\ patterns[i].usage_count >= 4
        /\ patterns[i].confidence = Float(95, 0)
        /\ patterns[i].last_used.kind = "datetime"


\* the input holds one single-line replacement that yields a pattern
SingleReplacement(input) ==
    /\ input.compilation_success
    /\ Len(ExtractedChanges[input]) = 1
    /\ ~create_pattern(ExtractedChanges[input][1], input.error_messages, 0, 0).none

\* where the pattern of such an input is in the registry ps, 0 if nowhere
LearnedAt(ps, input, seed) ==
    Position(ps,
             create_pattern(ExtractedChanges[input][1], input.error_messages,
                            seed, 0).pattern.pattern_id,
             1)

\* distance of a success rate from 1.0, in thousandths
DistanceToOne(rate) == IF rate <= 1000 THEN 1000 - rate ELSE rate - 1000

\* C11: when a learner that has just learned a single-line replacement for the
\* first time is given the identical input again, the pattern's usage count is
\* 2 and its success rate is strictly closer to 1.0 than after the first call.
C11_TwiceIdenticalCloser ==
    [][(/\ lret.op = "learn"
        /\ lret'.op = "learn"
        /\ learn_clock' # learn_clock
        /\ lret'.input = lret.input
        /\ SingleReplacement(lret.input)
        /\ LearnedAt(patterns, lret.input, hash_seed) # 0
        /\ patterns[LearnedAt(patterns, lret.input, hash_seed)].usage_count = 1)
       =>
        LET at == LearnedAt(patterns, lret.input, hash_seed) IN
        /\ patterns'[at].usage_count = 2
        /\ DistanceToOne(patterns'[at].success_rate)
                < DistanceToOne(patterns[at].success_rate)]_vars

\* C12: learn_from_success with a failed build changes neither the registry
\* nor the pattern file, whatever the texts and the error messages.
C12_FailedBuildIsNoOp ==
    [][(lret'.op = "learn" /\ ~lret'.input.compilation_success) =>
            (patterns' = patterns /\ pattern_file' = pattern_file)]_vars

C12_Witness ==
    /\ lret.op = "learn"
    /\ ~lret.input.compilation_success
    /\ lret.input.error_messages = <<>>
    /\ patterns # <<>>
    /\ pattern_file.kind = "list"

\* C13: the pattern id is a function of (error signature, original snippet):
\* two patterns of a registry with the same pair have the same id, so a repair
\* learned again by a later learner over the saved library is the same entry.
C13_PatternIdDeterministic ==
    \A i, j \in 1 .. Len(patterns) :
        (/\ patterns[i].error_signature = patterns[j].error_signature
         /\ patterns[i].original_code_snippet = patterns[j].original_code_snippet)
        => patterns[i].pattern_id = patterns[j].pattern_id

\* C14: when the write of the pattern file fails during learn_from_success,
\* the call raises.
C14_PatternWriteFailureSurfaces ==
    (lret.op = "learn" /\ lret.write \in {"open_fails", "write_fails"}) => lret.raised

\* C15: a learner constructed over a missing or malformed pattern file has
\* not raised and has an empty registry, also when the file is a list whose
\* first record is well-formed and whose second is not.
C15_MalformedLibraryLoadsEmpty ==
    (lret.op = "construct" /\ pattern_file \in MalformedPatternFiles \cup {MissingFile})
        => (~lret.raised /\ patterns = <<>>)

\* 0.9 * rate + 0.1, n times over, in thousandths
RECURSIVE RateAfter(_, _)
RateAfter(rate, n) ==
    IF n = 0 THEN rate ELSE RateAfter((900 * rate + 100000) \div 1000, n - 1)

\* min(0.95, c + 0.05), n times over
RECURSIVE ConfidenceAfter(_, _)
ConfidenceAfter(c, n) ==
    IF n = 0 THEN c
    ELSE ConfidenceAfter(FloatMin(Float(95, 0), AddConfidenceStep(c)), n - 1)

Persisted(p) ==
    [k \in PatternFields |->
        IF k # "last_used" THEN p[k]
        ELSE IF p.last_used.kind = "datetime" THEN isoformat(p.last_used.value)
        ELSE p.last_used.value]

\* C26: after every learn_from_success call with a successful build that
\* returns, the pattern file holds exactly the patterns of the registry with
\* their current fields, also when the learner was constructed over a saved,
\* non-empty library.
C26_LibraryMatchesRegistry ==
    (lret.op = "learn" /\ lret.input.compilation_success /\ ~lret.raised) =>
        /\ pattern_file.kind = "list"
        /\ pattern_file.data = [i \in 1 .. Len(patterns) |-> Persisted(patterns[i])]

----------------------------------------------------------------------------
(* Claims about the incremental fixer *)

NamedLine(message) ==
    LET at == search_location(message, 1) IN
    IF at # 0 THEN int(line_group(message, at)) ELSE -1

HasLocation(message) == search_location(message, 1) # 0

\* the confidence the fix of an error type carries
ConfidenceOf(type) ==
    CASE type = "missing_semicolon" -> 95
      [] type = "missing_parenthesis" -> 90
      [] type = "deprecated_function" -> 85
      [] type = "deprecated_variable" -> 80
      [] type = "wrong_parameters" -> 70
      [] OTHER -> 0

\* change is what the fix of this error produces: it is recorded under the
\* line the message names and carries the confidence of the error's type
IsChangeFor(change, error) ==
    /\ HasLocation(error.original_message)
    /\ change.line_number = NamedLine(error.original_message) - 1
    /\ change.confidence = ConfidenceOf(error.error_type)

\* the changes are made, in order, for distinct errors among those at the
\* positions allowed
MadeFor(changes, errors, allowed) ==
    \E f \in [1 .. Len(changes) -> allowed] :
        /\ \A i, j \in 1 .. Len(changes) : i < j => f[i] < f[j]
        /\ \A i \in 1 .. Len(changes) : IsChangeFor(changes[i], errors[f[i]])

\* C19: apply_minimal_fixes makes changes only for errors among the first 3
\* of priority_errors, at most one per such error, and never more than
\* min(3, max_changes_per_iteration) of them.
C19_TopThreeAndCap ==
    call.op = "apply_minimal_fixes" =>
        LET changes == result.value.changes
            errors == call.priority_errors
        IN  /\ Len(changes) <= Smaller(3, max_changes_per_iteration)
            /\ MadeFor(changes, errors, 1 .. Smaller(3, Len(errors)))

C19_Witness ==
    /\ call.op = "apply_minimal_fixes"
    /\ max_changes_per_iteration = 4
    /\ Len(call.priority_errors) = 4
    /\ Len(result.value.changes) = 3
    /\ ~fix_single_error(split_lines(result.value.modified_code, <<>>),
                         call.priority_errors[4]).none

\* the error names no line, or a line that the source does not have
Unlocated(error, lines) ==
    \/ ~HasLocation(error.original_message)
    \/ NamedLine(error.original_message) \notin 1 .. Len(lines)

\* C20: in apply_minimal_fixes an error whose message has no (line,col)
\* token, or names a line outside 1 .. number of lines (line 0 included), is
\* skipped: no change is made for it, no line of the source is changed on its
\* account, and nothing is raised.
C20_UnlocatedErrorsSkipped ==
    call.op = "apply_minimal_fixes" =>
        LET changes == result.value.changes
            errors == call.priority_errors
            before == split_lines(call.original_code, <<>>)
            after == split_lines(result.value.modified_code, <<>>)
        IN  /\ ~result.raised
            /\ MadeFor(changes, errors,
                       {k \in 1 .. Len(errors) : ~Unlocated(errors[k], before)})
            /\ Len(after) = Len(before)
            /\ \A n \in 1 .. Len(before) :
                    (\A i \in 1 .. Len(changes) : changes[i].line_number + 1 # n)
                        => after[n] = before[n]

\* every change of the list found the line it changes as the changes before
\* it had left it
RECURSIVE SeesEarlier(_, _)
SeesEarlier(lines, changes) ==
    IF changes = <<>> THEN TRUE
    ELSE /\ Head(changes).old_content = lines[PyIndex(lines, Head(changes).line_number)]
         /\ SeesEarlier(apply_changes(lines, <<Head(changes)>>), Tail(changes))

\* C24: within one apply_minimal_fixes call the changes are made in the order
\* of priority_errors and each fix sees the earlier ones: the old_content of
\* every change is the content its line has after the changes made before it
\* in the same call, and the returned source is the input with the changes
\* applied in that order, so two errors that name the same line compose.
C24_LaterFixesSeeEarlier ==
    call.op = "apply_minimal_fixes" =>
        LET changes == result.value.changes
            errors == call.priority_errors
            before == split_lines(call.original_code, <<>>)
        IN  /\ MadeFor(changes, errors, 1 .. Smaller(3, Len(errors)))
            /\ SeesEarlier(before, changes)
            /\ result.value.modified_code = join("\n", apply_changes(before, changes))

C24_Witness ==
    /\ call.op = "apply_minimal_fixes"
    /\ Len(result.value.changes) >= 2
    /\ result.value.changes[1].line_number = result.value.changes[2].line_number
    /\ result.value.changes[2].old_content = result.value.changes[1].new_content
    /\ result.value.changes[2].old_content # result.value.changes[1].old_content
    /\ result.value.changes[1].confidence # result.value.changes[2].confidence

----------------------------------------------------------------------------
(* Claims about the error categorizer *)

\* the entries of a table with the tier they belong to
Tiered(table, tier) ==
    [k \in 1 .. Len(table) |->
        [pattern |-> table[k].pattern, type |-> table[k].type,
         priority |-> table[k].priority, tier |-> tier]]

\* the order in which the spec has the patterns tried
Cascade ==
    Tiered(SIMPLE_PATTERNS, "simple") \o Tiered(MEDIUM_PATTERNS, "medium")
        \o Tiered(COMPLEX_PATTERNS, "complex")

TierRange(tier) ==
    CASE tier = "simple" -> 1 .. 2
      [] tier = "medium" -> 3 .. 5
      [] tier = "complex" -> 6 .. 7

\* text holds part as a run of consecutive symbols
HasRun(text, part) ==
    \E i \in 1 .. Len(text) - Len(part) + 1 : SubSeq(text, i, i + Len(part) - 1) = part

\* C17: categorize returns the classification of the first pattern that
\* matches when the simple, the medium and the complex table are tried in
\* this order, with that tier and a priority in the tier's range (1-2, 3-5,
\* 6-7); a message that matches no pattern is classified unknown, medium,
\* priority 8; no message is dropped or makes the call raise; the semicolon
\* message of line 12 is simple, priority 1, with 12 in its template.
C17_FirstMatchOrUnknown ==
    call.op = "categorize" =>
        /\ ~result.raised
        /\ LET msg == call.error_msg
               hits == {k \in 1 .. Len(Cascade) :
                            search_ignorecase(Cascade[k].pattern, msg)}
               got == result.value
           IN  /\ got.original_message = msg
               /\ IF hits = {}
                  THEN /\ got.error_type = "unknown"
                       /\ got.complexity = "medium"
                       /\ got.priority = 8
                  ELSE LET first == CHOOSE k \in hits : \A j \in hits : k <= j IN
                       /\ got.error_type = Cascade[first].type
                       /\ got.complexity = Cascade[first].tier
                       /\ got.priority = Cascade[first].priority
                       /\ got.priority \in TierRange(got.complexity)
               /\ msg = MsgSemicolon =>
                       /\ got.complexity = "simple"
                       /\ got.priority = 1
                       /\ HasRun(got.fix_template, <<"1", "2">>)

\* the messages of a list of categorized errors that have priority p
WithPriority(list, p) ==
    LET Has(e) == e.priority = p
        kept == SelectSeq(list, Has)
    IN  [i \in 1 .. Len(kept) |-> kept[i].original_message]

\* the messages of a list of raw messages that categorize gives priority p
RawWithPriority(messages, p) ==
    LET Has(msg) == categorize_single_error(msg).value.priority = p
    IN  SelectSeq(messages, Has)

\* C18: categorize_errors returns one categorized error per message of its
\* input, nothing dropped, in ascending order of priority, and the entries of
\* equal priority are in the order their messages had in the input.
C18_OnePerMessageStablySorted ==
    call.op = "categorize_errors" =>
        /\ ~result.raised
        /\ Len(result.value) = Len(call.compilation_errors)
        /\ \A i \in 1 .. Len(result.value) - 1 :
                result.value[i].priority <= result.value[i + 1].priority
        /\ \A p \in 1 .. 8 :
                WithPriority(result.value, p) = RawWithPriority(call.compilation_errors, p)

\* how many lines a text has
LineCount(code) == Len(split_lines(code, <<>>))

\* the impact of what apply_minimal_fixes returned on the source it was given
ImpactOfFixes == calculate_change_impact(call.original_code, result.value.modified_code)

\* C27 (first half): on a source of fewer than 10 lines, whenever
\* apply_minimal_fixes applies at least one change, should_rollback of the
\* impact is true for every error improvement, because change_ratio is the
\* changes over the lines of the source and exceeds 0.10.
C27_ShortSourcesAlwaysRollBack ==
    (/\ call.op = "apply_minimal_fixes"
     /\ LineCount(call.original_code) < 10
     /\ result.value.changes # <<>>) =>
        /\ ImpactOfFixes.change_ratio > 100
        /\ \A imp \in Improvements : should_rollback(ImpactOfFixes, imp)

\* C27: the first half, and on a source of 10 or more lines a single
\* one-line fix that improves the error count is not rolled back.
C27_RollbackByLineCount ==
    /\ C27_ShortSourcesAlwaysRollBack
    /\ (/\ call.op = "apply_minimal_fixes"
        /\ LineCount(call.original_code) >= 10
        /\ Len(result.value.changes) = 1) =>
            \A imp \in Improvements : imp > 0 => ~should_rollback(ImpactOfFixes, imp)

\* the lines an applied change of the list is made on: lines[line_number] as
\* the code indexes it
TargetLines(lines, changes) ==
    {PyIndex(lines, changes[i].line_number) : i \in 1 .. Len(changes)}

\* C28: apply_minimal_fixes never changes the number of lines of the source,
\* every line that is not the target line of an applied change is the same
\* in the returned source as in the input, and with no applied change the
\* returned source equals the input.
C28_FixesKeepOtherLines ==
    call.op = "apply_minimal_fixes" =>
        LET changes == result.value.changes
            before == split_lines(call.original_code, <<>>)
            after == split_lines(result.value.modified_code, <<>>)
        IN  /\ ~result.raised
            /\ Len(after) = Len(before)
            /\ \A n \in 1 .. Len(before) :
                    n \notin TargetLines(before, changes) => after[n] = before[n]
            /\ changes = <<>> => result.value.modified_code = call.original_code

C28_Witness ==
    /\ call.op = "apply_minimal_fixes"
    /\ Len(result.value.changes) = 2
    /\ LineCount(call.original_code) = 3
    /\ Cardinality(TargetLines(split_lines(call.original_code, <<>>),
                               result.value.changes)) = 2
    /\ result.value.modified_code # call.original_code
    /\ \E n \in 1 .. 3 :
            /\ n \notin TargetLines(split_lines(call.original_code, <<>>),
                                    result.value.changes)
            /\ split_lines(result.value.modified_code, <<>>)[n]
                    = split_lines(call.original_code, <<>>)[n]

\* the file holds a session document that loads: the last one a save wrote
\* successfully, since a failed write leaves the file as it was or unparseable
HoldsDocument(file) == file.kind = "object" /\ ~load_try(file).raised

\* the attempt list of the document the file holds
PersistedVersions(file) == load_session(file).versions

\* C29 as stated: after an add_version whose write failed the call has raised,
\* the new attempt is in memory and current, and the in-memory attempt list is
\* exactly one attempt longer than the last successfully persisted document;
\* after an add_version that returned the persisted attempt list equals the
\* in-memory one.
C29_OneAheadOfPersisted ==
    /\ (ret.op = "add_version" /\ ret.write # "ok") =>
            /\ ret.raised
            /\ versions # <<>>
            /\ current_version = Len(versions) - 1
            /\ HoldsDocument(session_file) =>
                    Len(versions) = Len(PersistedVersions(session_file)) + 1
    /\ (ret.op = "add_version" /\ ~ret.raised) =>
            /\ HoldsDocument(session_file)
            /\ PersistedVersions(session_file) = versions

\* C29, amended: add_version appends the attempt and makes it current before
\* it writes; when the write fails the call raises, the memory holds the new
\* attempt as current and is one attempt longer than before the call, and the
\* file has not gained it, so the memory is exactly one attempt ahead of the
\* last persisted document only when it was level with it before the call;
\* after an add_version that returned, the persisted attempt list and
\* pointer equal the in-memory ones.
C29_EachFailureOneFurtherAhead ==
    [][AddVersionStep =>
        /\ Len(versions') = Len(versions) + 1
        /\ SubSeq(versions', 1, Len(versions)) = versions
        /\ current_version' = Len(versions') - 1
        /\ ret'.raised = (ret'.write # "ok")
        /\ ret'.raised =>
                /\ session_file' \in {session_file, UnparseableFile}
                /\ (HoldsDocument(session_file)
                        /\ PersistedVersions(session_file) = versions) =>
                       Len(versions') = Len(PersistedVersions(session_file)) + 1
                /\ (HoldsDocument(session_file)
                        /\ Len(versions) > Len(PersistedVersions(session_file))) =>
                       Len(versions') > Len(PersistedVersions(session_file)) + 1
        /\ ~ret'.raised =>
                /\ HoldsDocument(session_file')
                /\ PersistedVersions(session_file') = versions'
                /\ load_session(session_file').current_version = current_version']_vars

C29_Witness ==
    /\ ret.op = "add_version"
    /\ ret.write = "open_fails"
    /\ ret.raised
    /\ HoldsDocument(session_file)
    /\ Len(PersistedVersions(session_file)) >= 1
    /\ Len(versions) = Len(PersistedVersions(session_file)) + 1
    /\ current_version = Len(versions) - 1

\* categorize classifies the message with the type, tier and priority of the
\* entry
ClassifiedAs(msg, entry) ==
    LET got == categorize_single_error(msg) IN
    /\ ~got.raised
    /\ got.value.error_type = entry.type
    /\ got.value.complexity = entry.tier
    /\ got.value.priority = entry.priority

\* every text that holds an alternative of entry k holds the pattern of an
\* entry tried before it
Shadowed(k) ==
    \E j \in 1 .. k - 1 :
        \A alt \in Cascade[k].pattern : search_ignorecase(Cascade[j].pattern, alt)

\* the error types _fix_single_error dispatches on, incremental_fixer.py
\* lines 63-75
FixerKinds ==
    {"missing_semicolon", "missing_parenthesis", "deprecated_function",
     "deprecated_variable", "wrong_parameters"}

\* C30: every entry of the three pattern tables is reachable, whatever the
\* categorizer has been called with before (it keeps nothing between calls):
\* no entry is shadowed by a pattern tried earlier in the cascade, for each
\* entry there is a raw message that categorize classifies with the entry's
\* type, tier and priority, and each kind the fixer dispatches on is the type
\* of some classified message.
C30_EveryEntryReachable ==
    call.op \in {"none", "categorize", "categorize_errors"} =>
        /\ \A k \in 1 .. Len(Cascade) :
                /\ ~Shadowed(k)
                /\ \E msg \in CatMessages : ClassifiedAs(msg, Cascade[k])
        /\ \A kind \in FixerKinds :
                \E msg \in CatMessages :
                    /\ ~categorize_single_error(msg).raised
                    /\ categorize_single_error(msg).value.error_type = kind

====
